---- MODULE Spec2Model ----
(***************************************************************************)
(* PolyMirror: the settlement-event listener (listener.py), the mirror     *)
(* decision engine (executor.py) and the label lookup (asset_mapper.py),   *)
(* as one state machine.                                                   *)
(*                                                                         *)
(* Python floats are IEEE-754 binary64.  They are modelled bit-exactly:    *)
(* a float is [s, m, e] with value s * m * 2^e, m = 0 or 2^52 <= m < 2^53, *)
(* and every arithmetic operation rounds to nearest, ties to even.         *)
(* Mantissas do not fit TLC's integers, so they are kept as four limbs of  *)
(* 30 bits, least significant first.                                       *)
(***************************************************************************)
EXTENDS Integers, Sequences, FiniteSets, TLC

----------------------------------------------------------------------------
(* Wide naturals: <<l1, l2, l3, l4>>, value l1 + l2*2^30 + l3*2^60 + l4*2^90 *)

Limb == 2^30

W(n) == <<n % Limb, n \div Limb, 0, 0>>

WZero == <<0, 0, 0, 0>>

WOne == <<1, 0, 0, 0>>

WAdd(a, b) ==
    LET s1 == a[1] + b[1]
        s2 == a[2] + b[2] + (s1 \div Limb)
        s3 == a[3] + b[3] + (s2 \div Limb)
        s4 == a[4] + b[4] + (s3 \div Limb)
    IN  <<s1 % Limb, s2 % Limb, s3 % Limb, s4 % Limb>>

\* a - b for a >= b
WSub(a, b) ==
    LET d1 == a[1] - b[1]
        d2 == a[2] - b[2] - (IF d1 < 0 THEN 1 ELSE 0)
        d3 == a[3] - b[3] - (IF d2 < 0 THEN 1 ELSE 0)
        d4 == a[4] - b[4] - (IF d3 < 0 THEN 1 ELSE 0)
    IN  <<d1 % Limb, d2 % Limb, d3 % Limb, d4 % Limb>>

WLess(a, b) ==
    IF a[4] # b[4] THEN a[4] < b[4]
    ELSE IF a[3] # b[3] THEN a[3] < b[3]
    ELSE IF a[2] # b[2] THEN a[2] < b[2]
    ELSE a[1] < b[1]

WDbl(a) == WAdd(a, a)

WOdd(a) == a[1] % 2 = 1

\* a * 2^n, by whole limbs and then by bits
WShlLimbs(a, k) ==
    <<IF k = 0 THEN a[1] ELSE 0,
      IF k = 0 THEN a[2] ELSE IF k = 1 THEN a[1] ELSE 0,
      IF k = 0 THEN a[3] ELSE IF k = 1 THEN a[2] ELSE IF k = 2 THEN a[1] ELSE 0,
      IF k = 0 THEN a[4] ELSE IF k = 1 THEN a[3] ELSE IF k = 2 THEN a[2]
      ELSE IF k = 3 THEN a[1] ELSE 0>>

WShlBits(a, b) ==
    LET hi == 2^(30 - b)
        lo == 2^b
    IN  <<(a[1] % hi) * lo,
          (a[2] % hi) * lo + (a[1] \div hi),
          (a[3] % hi) * lo + (a[2] \div hi),
          (a[4] % hi) * lo + (a[3] \div hi)>>

WShl(a, n) == WShlBits(WShlLimbs(a, n \div 30), n % 30)

\* number of significant bits
LimbBits(l) == CHOOSE i \in 0..30 : l < 2^i /\ (i = 0 \/ l >= 2^(i - 1))

WBits(a) ==
    IF a[4] # 0 THEN 90 + LimbBits(a[4])
    ELSE IF a[3] # 0 THEN 60 + LimbBits(a[3])
    ELSE IF a[2] # 0 THEN 30 + LimbBits(a[2])
    ELSE LimbBits(a[1])

\* the product of two mantissas (< 2^56), schoolbook on 14-bit digits
Digits14(a) ==
    <<a[1] % 2^14, (a[1] \div 2^14) % 2^14,
      (a[1] \div 2^28) + (a[2] % 2^12) * 4, a[2] \div 2^12>>

WMulDigits(x, y) ==
    LET c0 == x[1] * y[1]
        c1 == x[1] * y[2] + x[2] * y[1]
        c2 == x[1] * y[3] + x[2] * y[2] + x[3] * y[1]
        c3 == x[1] * y[4] + x[2] * y[3] + x[3] * y[2] + x[4] * y[1]
        c4 == x[2] * y[4] + x[3] * y[3] + x[4] * y[2]
        c5 == x[3] * y[4] + x[4] * y[3]
        c6 == x[4] * y[4]
    IN  WAdd(WAdd(WAdd(W(c0), WShl(W(c1), 14)),
                  WAdd(WShl(W(c2), 28), WShl(W(c3), 42))),
             WAdd(WAdd(WShl(W(c4), 56), WShl(W(c5), 70)), WShl(W(c6), 84)))

WMul(a, b) == WMulDigits(Digits14(a), Digits14(b))

\* 2^52 and 2^53 as wide naturals
WTwo52 == <<0, 2^22, 0, 0>>

WTwo53 == <<0, 2^23, 0, 0>>

----------------------------------------------------------------------------
(* binary64 values and correctly rounded operations                        *)

FZero == [s |-> 1, m |-> WZero, e |-> 0]

FIsZero(x) == x.m = WZero

\* cnt more quotient bits of r/d, from st = <<quotient so far, remainder r < d>>
RECURSIVE DivBits(_, _, _)
DivStep(q2, r2, d, cnt) ==
    IF WLess(r2, d) THEN DivBits(<<q2, r2>>, d, cnt - 1)
    ELSE DivBits(<<WAdd(q2, WOne), WSub(r2, d)>>, d, cnt - 1)

DivBits(st, d, cnt) ==
    IF cnt = 0 THEN st
    ELSE IF st[2] = WZero THEN <<WShl(st[1], cnt), WZero>>
    ELSE DivStep(WDbl(st[1]), WDbl(st[2]), d, cnt)

\* n/d scaled so that d <= n < 2d: <<n', d', k>> with n/d = n'/d' * 2^k
NormQShifted(n0, d0, k0) ==
    IF WLess(n0, d0) THEN <<WDbl(n0), d0, k0 - 1>> ELSE <<n0, d0, k0>>

NormQAt(n, d, k0) ==
    NormQShifted(IF k0 < 0 THEN WShl(n, -k0) ELSE n,
                 IF k0 > 0 THEN WShl(d, k0) ELSE d, k0)

NormQ(n, d) == NormQAt(n, d, WBits(n) - WBits(d))

\* quotient q with twice the remainder r2 of a division by d: round to
\* nearest, ties to even
RoundUp(q, r2, d) ==
    IF WLess(d, r2) \/ (r2 = d /\ WOdd(q)) THEN WAdd(q, WOne) ELSE q

RoundQR(qr, d) == RoundUp(qr[1], WDbl(qr[2]), d)

\* the 53-bit quotient of n/d (d <= n < 2d), rounded
RoundBits(n, d) ==
    RoundQR(DivBits(DivBits(DivBits(DivBits(<<WOne, WSub(n, d)>>, d, 13),
                                    d, 13), d, 13), d, 13), d)

\* sign, rounded 53-bit quotient and exponent as a float
Pack(sgn, q1, e) ==
    IF q1 = WTwo53 THEN [s |-> sgn, m |-> WTwo52, e |-> e + 1]
    ELSE [s |-> sgn, m |-> q1, e |-> e]

RoundNQ(sgn, nq, e0) == Pack(sgn, RoundBits(nq[1], nq[2]), nq[3] - 52 + e0)

\* the binary64 nearest to sgn * (n/d) * 2^e0 (n, d wide, d > 0)
RoundQ(sgn, n, d, e0) ==
    IF n = WZero THEN FZero ELSE RoundNQ(sgn, NormQ(n, d), e0)

\* int -> float (|i| < 2^31), and the float the decimal literal i / 10^p denotes
FInt(i) == RoundQ(IF i < 0 THEN -1 ELSE 1, W(IF i < 0 THEN -i ELSE i), WOne, 0)

FDec(i, p) ==
    RoundQ(IF i < 0 THEN -1 ELSE 1, W(IF i < 0 THEN -i ELSE i), W(10^p), 0)

FNeg(x) == [x EXCEPT !.s = -x.s]

FAbs(x) == [x EXCEPT !.s = 1]

\* |x| < |y|
FMagLess(x, y) ==
    IF FIsZero(y) THEN FALSE
    ELSE IF FIsZero(x) THEN TRUE
    ELSE IF x.e # y.e THEN x.e < y.e
    ELSE WLess(x.m, y.m)

FSign(x) == IF FIsZero(x) THEN 0 ELSE x.s

FLess(x, y) ==
    IF FSign(x) # FSign(y) THEN FSign(x) < FSign(y)
    ELSE IF FSign(x) = 0 THEN FALSE
    ELSE IF FSign(x) = 1 THEN FMagLess(x, y)
    ELSE FMagLess(y, x)

FEq(x, y) == ~FLess(x, y) /\ ~FLess(y, x)

\* signed magnitudes nx, ny on the common exponent em
FAddAligned(xs, nx, ys, ny, em) ==
    IF xs = ys THEN RoundQ(xs, WAdd(nx, ny), WOne, em)
    ELSE IF WLess(nx, ny) THEN RoundQ(ys, WSub(ny, nx), WOne, em)
    ELSE RoundQ(xs, WSub(nx, ny), WOne, em)

FAddAt(x, y, em) ==
    FAddAligned(x.s, WShl(x.m, x.e - em), y.s, WShl(y.m, y.e - em), em)

FAdd(x, y) ==
    IF FIsZero(x) THEN y
    ELSE IF FIsZero(y) THEN x
    ELSE FAddAt(x, y, IF x.e < y.e THEN x.e ELSE y.e)

FSub(x, y) == FAdd(x, FNeg(y))

FMul(x, y) == RoundQ(x.s * y.s, WMul(x.m, y.m), WOne, x.e + y.e)

\* y nonzero
FDiv(x, y) == RoundQ(x.s * y.s, x.m, y.m, x.e - y.e)

\* the binary64 that is no number: every comparison with it is false
FNaN == [s |-> 1, m |-> WZero, e |-> 2047]

FIsNaN(x) == x.e = 2047

----------------------------------------------------------------------------
(* Values read from outside the program                                    *)

\* a JSON or decimal-string number n / 10^k, and the values that are not numbers
Num(n, k) == [t |-> "num", n |-> n, k |-> k]

Absent == [t |-> "absent", n |-> 0, k |-> 0]

NotANumber == [t |-> "str", n |-> 0, k |-> 0]

NoneVal == [t |-> "none", n |-> 0, k |-> 0]

\* a JSON number beyond the range of binary64, such as 1e999: json.load
\* gives float('inf')
Overflowing == [t |-> "inf", n |-> 0, k |-> 0]

\* float(x), json's number parsing: the binary64 nearest to the decimal
ParseFloat(v) == FDec(v.n, v.k)

\* an optional float argument: None, or a float
NoFloat == [t |-> "none", f |-> FZero]

SomeFloat(f) == [t |-> "float", f |-> f]

\* a string as the tuple of its characters, and the values that are no string
Str(chars) == [t |-> "str", s |-> chars]

NoStr == [t |-> "absent", s |-> <<>>]

NullStr == [t |-> "none", s |-> <<>>]

\* a comparison that leaves the case of the letters as it is
LowerKeepingCase(chars) == chars

\* str.lower()
LowerChar(ch) ==
    CASE ch = "A" -> "a" [] ch = "B" -> "b" [] ch = "C" -> "c"
      [] ch = "D" -> "d" [] ch = "E" -> "e" [] ch = "F" -> "f"
      [] OTHER -> ch

Lower(chars) == [i \in DOMAIN chars |-> LowerChar(chars[i])]

\* the settings store config.json: absent, unreadable, not JSON, or an object
FileOk(cfg) == [kind |-> "ok", cfg |-> cfg]

Cfg(active, wallet, ratio, cap) ==
    [is_active |-> active, target_wallet |-> wallet,
     copy_ratio |-> ratio, max_cap_usdc |-> cap]

NoCfg == Cfg("absent", NoStr, Absent, Absent)

FileBad(kind) == [kind |-> kind, cfg |-> NoCfg]

----------------------------------------------------------------------------
(* asset_mapper.get_market_details, behind functools.lru_cache             *)

CacheMax == 100

DefaultResponse == [question |-> "Unknown", outcome |-> "Unknown", market_slug |-> ""]

\* what the Gamma API holds for a token id
MarketOf(id) ==
    IF id % 2 = 1
    THEN [question |-> "Will it rain?", outcome |-> "Yes", market_slug |-> "rain"]
    ELSE [question |-> "Will it snow?", outcome |-> "No", market_slug |-> "snow"]

\* how one request to the Gamma API comes out, as the other modules meet it
ApiOutcomes == {"ok", "timeout", "empty"}

\* str(n) for n >= 0: its decimal digits
RECURSIVE DecStr(_)
DecStr(n) ==
    (IF n < 10 THEN <<>> ELSE DecStr(n \div 10))
    \o <<(<<"0", "1", "2", "3", "4", "5", "6", "7", "8", "9">>)[(n % 10) + 1]>>

\* a field of a JSON object: a value ("val"), a number, null, or no such key
Json(t, v) == [t |-> t, v |-> v]

\* d.get(key, default)
GetField(f, dflt) == IF f.t = "absent" THEN dflt ELSE f.v

\* the requests that end in an exception of requests.get, raise_for_status
\* or response.json
HttpFailures ==
    {"timeout", "http_error", "connection_error", "request_error", "invalid_json"}

\* the "tokens" field of the market in the answer
TokensOf(id, api) ==
    CASE api = "no_tokens" -> Json("absent", <<>>)
      [] api = "null_tokens" -> Json("null", <<>>)
      [] api = "other_tokens" ->
           Json("val", <<[token_id |-> Json("val", DecStr(id + 2)),
                          outcome |-> Json("val", "Maybe")]>>)
      [] api \in {"no_outcome", "bare"} ->
           Json("val", <<[token_id |-> Json("val", DecStr(id)),
                          outcome |-> Json("absent", "")]>>)
      [] api = "numeric_token_id" ->
           Json("val", <<[token_id |-> Json("num", id),
                          outcome |-> Json("val", MarketOf(id).outcome)]>>)
      [] OTHER ->
           Json("val", <<[token_id |-> Json("val", DecStr(id + 2)),
                          outcome |-> Json("val", "Maybe")],
                         [token_id |-> Json("val", DecStr(id)),
                          outcome |-> Json("val", MarketOf(id).outcome)]>>)

\* what lines 48-52 get for the token id: an exception, or the parsed list
\* of markets
Answer(id, api) ==
    IF api \in HttpFailures THEN [kind |-> api, data |-> <<>>]
    ELSE IF api = "empty" THEN [kind |-> "json", data |-> <<>>]
    ELSE [kind |-> "json",
          data |-> <<[question |-> IF api \in {"no_question", "bare"}
                                   THEN Json("absent", "")
                                   ELSE Json("val", MarketOf(id).question),
                      slug |-> IF api \in {"no_slug", "bare"}
                               THEN Json("absent", "")
                               ELSE Json("val", MarketOf(id).market_slug),
                      tokens |-> TokensOf(id, api)]>>]

\* lines 83-90: the outcome of the first token whose token_id is str(id)
RECURSIVE OutcomeOf(_, _)
OutcomeOf(tokens, id) ==
    IF tokens = <<>> THEN "Unknown"
    ELSE IF Head(tokens).token_id.t = "val" /\ Head(tokens).token_id.v = DecStr(id)
    THEN GetField(Head(tokens).outcome, "Unknown")
    ELSE OutcomeOf(Tail(tokens), id)

\* a body without the handler of line 119: iterating over null escapes
ParseMarketNoCatchAll(id, ans) ==
    IF ans.kind # "json" \/ ans.data = <<>>
    THEN [raised |-> FALSE, info |-> DefaultResponse]
    ELSE IF ans.data[1].tokens.t = "null"
    THEN [raised |-> TRUE, info |-> DefaultResponse]
    ELSE [raised |-> FALSE,
          info |-> [question |-> GetField(ans.data[1].question, "Unknown"),
                    outcome |-> OutcomeOf(GetField(ans.data[1].tokens, <<>>), id),
                    market_slug |-> GetField(ans.data[1].slug, "")]]

\* lines 42-122 on the answer: the exceptions of the request go to the
\* handlers of 98-118, an empty list returns at 57, and the TypeError of
\* line 86 on "tokens": null goes to the handler of 119; each gives the default
ParseMarket(id, ans) ==
    IF ans.kind # "json" \/ ans.data = <<>>
    THEN [raised |-> FALSE, info |-> DefaultResponse]
    ELSE IF ans.data[1].tokens.t = "null"
    THEN [raised |-> FALSE, info |-> DefaultResponse]
    ELSE [raised |-> FALSE,
          info |-> [question |-> GetField(ans.data[1].question, "Unknown"),
                    outcome |-> OutcomeOf(GetField(ans.data[1].tokens, <<>>), id),
                    market_slug |-> GetField(ans.data[1].slug, "")]]

\* the body of get_market_details: one request, and what is made of it
FetchMarket(id, api) == ParseMarket(id, Answer(id, api)).info

CacheIds(cch) == {cch[i][1] : i \in 1..Len(cch)}

CacheGet(cch, id) == (CHOOSE i \in 1..Len(cch) : cch[i][1] = id)

\* least recently used first
CacheTouch(cch, i) ==
    SubSeq(cch, 1, i - 1) \o SubSeq(cch, i + 1, Len(cch)) \o <<cch[i]>>

\* a cache that holds the latest result only
CachePutOnlyLatest(cch, id, info) == <<<<id, info>>>>

\* a cache that keeps no placeholder
CachePutUnlessPlaceholder(cch, id, info) ==
    LET full == Append(cch, <<id, info>>)
    IN  IF info = DefaultResponse THEN cch
        ELSE IF Len(full) > CacheMax THEN Tail(full) ELSE full

CachePut(cch, id, info) ==
    LET full == Append(cch, <<id, info>>)
    IN  IF Len(full) > CacheMax THEN Tail(full) ELSE full

\* the possible results of one call, the request coming out as one of apis:
\* the value, the cache after it, whether the API was asked
GetMarketDetailsOn(cch, id, apis) ==
    IF id \in CacheIds(cch)
    THEN {[info |-> cch[CacheGet(cch, id)][2],
           cache |-> CacheTouch(cch, CacheGet(cch, id)), asked |-> FALSE]}
    ELSE {[info |-> FetchMarket(id, api),
           cache |-> CachePut(cch, id, FetchMarket(id, api)), asked |-> TRUE] :
          api \in apis}

GetMarketDetails(cch, id) == GetMarketDetailsOn(cch, id, ApiOutcomes)

----------------------------------------------------------------------------
(* executor.execute_copy_trade                                             *)

\* what client.get_order_book answers: a book with its two sides, best level
\* first, or no book ("raise": the call raises, "noattr": an object without
\* the sides, "unasked": the call was not made)
Book(asks, bids) == [kind |-> "ok", asks |-> asks, bids |-> bids]

NoBook(kind) == [kind |-> kind, asks |-> <<>>, bids |-> <<>>]

\* the effects a call has on the outside, in the order it makes them
Fx(op, token, side, size, price, status, info) ==
    [op |-> op, token |-> token, side |-> side, size |-> size, price |-> price,
     status |-> status, market |-> info.question, outcome |-> info.outcome]

\* log_trade_to_db(market_name, outcome, side, size, price, status)
LogFx(c, size, price, status) ==
    Fx("log", c.token, c.side, size, price, status, c.info)

\* a terminal path that writes one record and returns
Abort(c, path, size, price) ==
    [path |-> path, book |-> c.book,
     fx |-> c.fx \o <<LogFx(c, size, price, "FAILED")>>]

\* the catch-all handler of the outer try
Unexpected(c) ==
    Abort(c, "unexpected", FZero,
          IF c.target.t = "none" THEN FZero ELSE c.target.f)

ClientOutcomes == {"ok", "ValueError", "Exception"}

SlippageTolerance == FDec(5, 2)

PostOutcomes == {"ok", "raise"}

\* a submission handler that logs the failure and lets the exception reach
\* the catch-all of the outer try, which logs it again
SubmitReraising(c, cur, size) ==
    {IF post = "ok"
     THEN [path |-> "submitted", book |-> c.book,
           fx |-> c.fx \o <<Fx("post", c.token, c.side, size, cur, "ok", c.info),
                            LogFx(c, size, cur, "SUCCESS")>>]
     ELSE [path |-> "unexpected", book |-> c.book,
           fx |-> c.fx \o <<Fx("post", c.token, c.side, size, cur, "raise", c.info),
                            LogFx(c, size, cur, "FAILED"),
                            LogFx(c, FZero, cur, "FAILED")>>] :
     post \in {"ok", "raise"}}

\* a failed submission recorded with size 0
SubmitFailureSizeZero(c, cur, size) ==
    {IF post = "ok"
     THEN [path |-> "submitted", book |-> c.book,
           fx |-> c.fx \o <<Fx("post", c.token, c.side, size, cur, "ok", c.info),
                            LogFx(c, size, cur, "SUCCESS")>>]
     ELSE [path |-> "submission_failed", book |-> c.book,
           fx |-> c.fx \o <<Fx("post", c.token, c.side, size, cur, "raise", c.info),
                            LogFx(c, FZero, cur, "FAILED")>>] :
     post \in PostOutcomes}

\* client.create_and_post_order(order_args), then the record of the result
Submit(c, cur, size) ==
    {IF post = "ok"
     THEN [path |-> "submitted", book |-> c.book,
           fx |-> c.fx \o <<Fx("post", c.token, c.side, size, cur, "ok", c.info),
                            LogFx(c, size, cur, "SUCCESS")>>]
     ELSE [path |-> "submission_failed", book |-> c.book,
           fx |-> c.fx \o <<Fx("post", c.token, c.side, size, cur, "raise", c.info),
                            LogFx(c, size, cur, "FAILED")>>] :
     post \in PostOutcomes}

OrderArgsOutcomes == {"ok", "raise"}

\* OrderArgs(token_id, price, size, side, ...)
CreateOrder(c, cur, size) ==
    UNION {IF oa = "ok" THEN Submit(c, cur, size)
           ELSE {Abort(c, "order_args_failed", size, cur)} :
           oa \in OrderArgsOutcomes}

\* config.get(key, default) for the two sizing settings
GetNumber(v, dflt) == IF v.t = "absent" THEN dflt ELSE v

\* min(a, b) of Python: b if b < a, else a
PyMin(a, b) == IF FLess(b, a) THEN b ELSE a

TradeSize(copy_ratio, max_cap_usdc) ==
    LET base_size == FDiv(max_cap_usdc, copy_ratio)
        calculated_size == FMul(base_size, copy_ratio)
    IN  PyMin(calculated_size, max_cap_usdc)

\* if trade_size <= 0: one FAILED record, else the order
SizeCheck(c, cur, trade_size) ==
    IF ~FLess(FZero, trade_size)
    THEN {Abort(c, "sizing_nonpositive", FZero, cur)}
    ELSE CreateOrder(c, cur, trade_size)

\* the sizing block on the two settings as config.get returned them; a value
\* that is no number, or a zero copy_ratio, raises inside the block; with an
\* infinite copy_ratio base_size is 0.0, calculated_size 0.0 * inf is nan,
\* min(nan, max_cap_usdc) is nan and nan <= 0 is false
SizingOn(c, cur, copy_ratio, max_cap_usdc) ==
    IF copy_ratio.t = "inf" /\ max_cap_usdc.t = "num"
    THEN CreateOrder(c, cur, FNaN)
    ELSE IF copy_ratio.t # "num" \/ max_cap_usdc.t # "num"
    THEN {Abort(c, "sizing_error", FZero, cur)}
    ELSE IF copy_ratio.n = 0
    THEN {Abort(c, "sizing_error", FZero, cur)}
    ELSE SizeCheck(c, cur,
                   TradeSize(ParseFloat(copy_ratio), ParseFloat(max_cap_usdc)))

DefaultCopyRatio == Num(1, 1)

DefaultMaxCap == Num(500, 0)

Sizing(c, cur) ==
    SizingOn(c, cur, GetNumber(c.cfg.copy_ratio, DefaultCopyRatio),
             GetNumber(c.cfg.max_cap_usdc, DefaultMaxCap))

\* price_diff > slippage_tolerance, for a target price other than zero
SlippageExceeded(cur, target) ==
    FLess(SlippageTolerance, FDiv(FAbs(FSub(cur, target)), target))

\* a rejection recorded at the reference price
SlippageLoggingTarget(c, cur) ==
    IF /\ c.target.t # "none"
       /\ ~FIsZero(c.target.f)
       /\ SlippageExceeded(cur, c.target.f)
    THEN {Abort(c, "slippage_exceeded", FZero, c.target.f)}
    ELSE Sizing(c, cur)

\* a reference price of zero taken for a rejection
SlippageZeroRejected(c, cur) ==
    IF /\ c.target.t # "none"
       /\ (FIsZero(c.target.f) \/ SlippageExceeded(cur, c.target.f))
    THEN {Abort(c, "slippage_exceeded", FZero, cur)}
    ELSE Sizing(c, cur)

\* lines 235-245
Slippage(c, cur) ==
    IF /\ c.target.t # "none"
       /\ ~FIsZero(c.target.f)
       /\ SlippageExceeded(cur, c.target.f)
    THEN {Abort(c, "slippage_exceeded", FZero, cur)}
    ELSE Sizing(c, cur)

\* an empty side left to the catch-all handler
ReadQuoteEmptyUnexpected(c, levels) ==
    IF Len(levels) = 0 THEN {Unexpected(c)}
    ELSE IF levels[1].t = "str" THEN {Abort(c, "unparsable_price", FZero, FZero)}
    ELSE IF levels[1].t # "num" THEN {Unexpected(c)}
    ELSE Slippage(c, ParseFloat(levels[1]))

\* the first level of the side of the book the trade needs
ReadQuote(c, levels) ==
    IF Len(levels) = 0 THEN {Abort(c, "empty_book", FZero, FZero)}
    ELSE IF levels[1].t = "str" THEN {Abort(c, "unparsable_price", FZero, FZero)}
    ELSE IF levels[1].t # "num" THEN {Unexpected(c)}
    ELSE Slippage(c, ParseFloat(levels[1]))

\* the context c once client.get_order_book(token_id) has answered with book
Asked(c, book) ==
    [c EXCEPT !.book = book,
              !.fx = Append(@, Fx("book", c.token, c.side, FZero, FZero,
                                  book.kind, c.info))]

\* the asks read for either side
QuoteFromAsks(c) ==
    IF c.book.kind = "raise" THEN {Abort(c, "quote_fetch_failed", FZero, FZero)}
    ELSE IF c.book.kind = "noattr" THEN {Unexpected(c)}
    ELSE ReadQuote(c, c.book.asks)

\* lines 188-219
QuoteFrom(c) ==
    IF c.book.kind = "raise" THEN {Abort(c, "quote_fetch_failed", FZero, FZero)}
    ELSE IF c.book.kind = "noattr" THEN {Unexpected(c)}
    ELSE ReadQuote(c, IF c.side = "BUY" THEN c.book.asks ELSE c.book.bids)

Quote(c, book) == QuoteFrom(Asked(c, book))

\* the context c once get_client() has returned or raised
Inited(c, client) ==
    [c EXCEPT !.fx = Append(@, Fx("client", c.token, c.side, FZero, FZero,
                                  client, c.info))]

\* handlers of get_client that return without a record
InitClientUnlogged(c, client, books) ==
    IF client # "ok"
    THEN {[path |-> "client_init_failed", book |-> c.book, fx |-> Inited(c, client).fx]}
    ELSE UNION {Quote(Inited(c, client), book) : book \in books}

\* lines 176-186: get_client() with its two handlers
InitClient(c, client, books) ==
    IF client # "ok"
    THEN {Abort(Inited(c, client), "client_init_failed", FZero, FZero)}
    ELSE UNION {Quote(Inited(c, client), book) : book \in books}

\* a call that looks the label up before it loads the configuration
ExecuteCopyTradeLabelFirst(token_id, side, target_price, file, cch, books) ==
    UNION {
      IF file.kind # "ok"
      THEN {[path |-> "config_unavailable", book |-> NoBook("unasked"),
             fx |-> <<Fx("label", token_id, side, FZero, FZero,
                         IF md.asked THEN "api" ELSE "cached", md.info)>>,
             cache |-> md.cache]}
      ELSE {[path |-> r.path, book |-> r.book, fx |-> r.fx, cache |-> md.cache] :
            r \in UNION {InitClient(
                     [token |-> token_id, side |-> side, target |-> target_price,
                      cfg |-> file.cfg, info |-> md.info,
                      book |-> NoBook("unasked"),
                      fx |-> <<Fx("label", token_id, side, FZero, FZero,
                                  IF md.asked THEN "api" ELSE "cached", md.info)>>],
                     client, books) : client \in ClientOutcomes}} :
      md \in GetMarketDetails(cch, token_id)}

\* a call that returns when the is_active it reads itself is not true
ExecuteCopyTradeIfActive(token_id, side, target_price, file, cch, books) ==
    IF file.kind # "ok" \/ file.cfg.is_active # "true"
    THEN {[path |-> "config_unavailable", book |-> NoBook("unasked"),
           fx |-> <<>>, cache |-> cch]}
    ELSE UNION {
           {[path |-> r.path, book |-> r.book, fx |-> r.fx, cache |-> md.cache] :
            r \in UNION {InitClient(
                     [token |-> token_id, side |-> side, target |-> target_price,
                      cfg |-> file.cfg, info |-> md.info,
                      book |-> NoBook("unasked"),
                      fx |-> <<Fx("label", token_id, side, FZero, FZero,
                                  IF md.asked THEN "api" ELSE "cached", md.info)>>],
                     client, books) : client \in ClientOutcomes}} :
           md \in GetMarketDetails(cch, token_id)}

\* every result the call can have: <<terminal path and effects, cache after>>
ExecuteCopyTrade(token_id, side, target_price, file, cch, books) ==
    IF file.kind # "ok"
    THEN {[path |-> "config_unavailable", book |-> NoBook("unasked"),
           fx |-> <<>>, cache |-> cch]}
    ELSE UNION {
           {[path |-> r.path, book |-> r.book, fx |-> r.fx, cache |-> md.cache] :
            r \in UNION {InitClient(
                     [token |-> token_id, side |-> side, target |-> target_price,
                      cfg |-> file.cfg, info |-> md.info,
                      book |-> NoBook("unasked"),
                      fx |-> <<Fx("label", token_id, side, FZero, FZero,
                                  IF md.asked THEN "api" ELSE "cached", md.info)>>],
                     client, books) : client \in ClientOutcomes}} :
           md \in GetMarketDetails(cch, token_id)}

----------------------------------------------------------------------------
(* listener.process_event                                                  *)

\* an OrderFilled event as the dict built from event['args']
Event(maker, taker, makerAssetId, takerAssetId, makerAmountFilled, takerAmountFilled) ==
    [maker |-> maker, taker |-> taker,
     makerAssetId |-> makerAssetId, takerAssetId |-> takerAssetId,
     makerAmountFilled |-> makerAmountFilled,
     takerAmountFilled |-> takerAmountFilled]

\* d.get(key, "") and d.get(key, 0)
GetStr(v) == IF v.t = "absent" THEN Str(<<>>) ELSE v

GetInt(v) == IF v.t = "absent" THEN 0 ELSE v.n

\* what the classification leaves in action, token_id, usdc_amount and
\* token_amount; "skip" is the early return, "raise" an exception
Trade(role, action, token_id, usdc_amount, token_amount) ==
    [kind |-> "trade", role |-> role, action |-> action, token_id |-> token_id,
     usdc_amount |-> usdc_amount, token_amount |-> token_amount]

NoTrade(kind) ==
    [kind |-> kind, role |-> "", action |-> "", token_id |-> 0,
     usdc_amount |-> 0, token_amount |-> 0]

\* the taker branch deciding on the maker's asset
ClassifyOnMakerAssetOnly(target_wallet, maker, taker, maker_asset_id, taker_asset_id, maker_amount, taker_amount) ==
    IF ~(maker = target_wallet \/ taker = target_wallet) THEN NoTrade("skip")
    ELSE IF maker = target_wallet
    THEN IF maker_asset_id = 0
         THEN Trade("MAKER", "BUY", taker_asset_id, maker_amount, taker_amount)
         ELSE Trade("MAKER", "SELL", maker_asset_id, taker_amount, maker_amount)
    ELSE IF maker_asset_id = 0
         THEN Trade("TAKER", "BUY", maker_asset_id, taker_amount, maker_amount)
         ELSE Trade("TAKER", "SELL", taker_asset_id, maker_amount, taker_amount)

ClassifyOn(target_wallet, maker, taker, maker_asset_id, taker_asset_id, maker_amount, taker_amount) ==
    IF ~(maker = target_wallet \/ taker = target_wallet) THEN NoTrade("skip")
    ELSE IF maker = target_wallet
    THEN IF maker_asset_id = 0
         THEN Trade("MAKER", "BUY", taker_asset_id, maker_amount, taker_amount)
         ELSE Trade("MAKER", "SELL", maker_asset_id, taker_amount, maker_amount)
    ELSE IF taker_asset_id = 0
         THEN Trade("TAKER", "BUY", maker_asset_id, taker_amount, maker_amount)
         ELSE Trade("TAKER", "SELL", taker_asset_id, maker_amount, taker_amount)

\* lines 70-134: .lower() raises on a value that is no string
Classify(event_args, config) ==
    IF \/ GetStr(config.target_wallet).t # "str"
       \/ GetStr(event_args.maker).t # "str"
       \/ GetStr(event_args.taker).t # "str"
    THEN NoTrade("raise")
    ELSE ClassifyOn(Lower(GetStr(config.target_wallet).s),
                    Lower(GetStr(event_args.maker).s),
                    Lower(GetStr(event_args.taker).s),
                    GetInt(event_args.makerAssetId), GetInt(event_args.takerAssetId),
                    GetInt(event_args.makerAmountFilled),
                    GetInt(event_args.takerAmountFilled))

\* the literal 1e6
Million == FInt(1000000)

\* a price of tokens per unit of currency
FilledPriceInverted(usdc_amount, token_amount) ==
    IF token_amount > 0
    THEN FDiv(FDiv(FInt(token_amount), Million), FDiv(FInt(usdc_amount), Million))
    ELSE FZero

\* filled_price: (usdc_amount / 1e6) / (token_amount / 1e6), or the int 0
FilledPrice(usdc_amount, token_amount) ==
    IF token_amount > 0
    THEN FDiv(FDiv(FInt(usdc_amount), Million), FDiv(FInt(token_amount), Million))
    ELSE FZero

\* a switch that is off only when the setting says false
InactiveOnlyIfFalse(config) == config.is_active = "false"

\* not config.get("is_active", False)
Inactive(config) == config.is_active # "true"

\* the outcomes of process_event that end before execute_copy_trade
Ended(cls, path, fx, cch) ==
    [cls |-> cls, path |-> path, book |-> NoBook("unasked"), fx |-> fx, cache |-> cch]

\* line 182: the call execute_copy_trade(token_id, action, filled_price),
\* after the label lookup md
Execute(cls, md, filled_price, file, books) ==
    {[cls |-> cls, path |-> r.path, book |-> r.book, cache |-> r.cache,
      fx |-> <<Fx("label", cls.token_id, cls.action, FZero, FZero,
                  IF md.asked THEN "api" ELSE "cached", md.info),
               Fx("exec", cls.token_id, cls.action, FZero, filled_price, "",
                  DefaultResponse)>> \o r.fx] :
     r \in ExecuteCopyTrade(cls.token_id, cls.action, SomeFloat(filled_price),
                            file, md.cache, books)}

\* lines 176-182, with the label md already looked up
Mirror(cls, config, md, file, books) ==
    IF Inactive(config)
    THEN {Ended(cls, "inactive",
                <<Fx("label", cls.token_id, cls.action, FZero, FZero,
                     IF md.asked THEN "api" ELSE "cached", md.info)>>, md.cache)}
    ELSE Execute(cls, md, FilledPrice(cls.usdc_amount, cls.token_amount), file, books)

\* lines 157-182 for a classified trade
Announce(cls, config, file, cch, books) ==
    UNION {Mirror(cls, config, md, file, books) :
           md \in GetMarketDetails(cch, cls.token_id)}

\* every result one call of process_event can have; file is config.json as
\* execute_copy_trade finds it
ProcessClassified(cls, config, file, cch, books) ==
    IF cls.kind = "raise" THEN {Ended(cls, "event_error", <<>>, cch)}
    ELSE IF cls.kind = "skip" THEN {Ended(cls, "not_target", <<>>, cch)}
    ELSE Announce(cls, config, file, cch, books)

ProcessEvent(event_args, config, file, cch, books) ==
    ProcessClassified(Classify(event_args, config), config, file, cch, books)

----------------------------------------------------------------------------
(* State                                                                   *)

VARIABLES
    pc,        \* where the program under way stands
    call,      \* the arguments of the operation under way
    out,       \* the terminal path and the effects of the last operation
    cfgFile,   \* config.json
    cache,     \* the lru_cache of get_market_details, least recent first
    trades,    \* the rows of the trades table of trades.db
    tables,    \* the tables trades.db holds
    orders,    \* the orders handed to create_and_post_order
    TARGET_WALLET,  \* the module global of listener.py
    config,         \* start_listener's config, as last loaded
    last_block,     \* start_listener's cursor
    current_block,  \* the height read in the polling iteration under way
    events,         \* the batch get_logs returned in that iteration
    idx,            \* how many events of the batch the for loop has taken
    height,         \* the head of the ledger
    netUp,          \* whether the RPC endpoint answers
    fetched,        \* the block ranges get_logs returned since the last (re)connect
    skipped,        \* the blocks a reconnect has moved the cursor over
    trace           \* the effects of the batch under way, each with its event's index;
                    \* for functions run on their own, the calls made so far

lvars ==
    <<TARGET_WALLET, config, last_block, current_block, events, idx, height,
      netUp, fetched, skipped, trace>>

vars == <<pc, call, out, cfgFile, cache, trades, tables, orders, lvars>>

\* the listener's variables while no listener runs
NoListener ==
    /\ TARGET_WALLET = NoStr
    /\ config = NoCfg
    /\ last_block = 0
    /\ current_block = 0
    /\ events = <<>>
    /\ idx = 0
    /\ height = 0
    /\ netUp = FALSE
    /\ fetched = <<>>
    /\ skipped = {}
    /\ trace = <<>>

NoOut == [path |-> "none", book |-> NoBook("unasked"), fx |-> <<>>]

\* the ways the sqlite3 calls of log_trade_to_db come out: connect raising,
\* execute raising OperationalError (a locked database), IntegrityError,
\* another DatabaseError or another exception, commit raising
DbFaults ==
    {"ok", "connect_error", "locked", "integrity_error", "database_error",
     "other_error", "commit_error"}

\* the outcomes the listener is run against
DbOutcomes == {"ok", "locked"}

Row(id, f) ==
    [id |-> id, market |-> f.market, outcome |-> f.outcome, side |-> f.side,
     size_usdc |-> f.size, price |-> f.price, status |-> f.status]

\* a catch-all that raises again what it caught
LogTradeToDbReraising(rows, tbls, f, db) ==
    IF db = "connect_error" THEN [rows |-> rows, conn |-> "none", raised |-> FALSE]
    ELSE IF db = "ok" /\ "trades" \in tbls
    THEN [rows |-> Append(rows, Row(Len(rows) + 1, f)), conn |-> "closed",
          raised |-> FALSE]
    ELSE [rows |-> rows, conn |-> "closed", raised |-> db = "other_error"]

\* an insert that replaces the row with id 1
LogTradeToDbReplacing(rows, tbls, f, db) ==
    IF db = "connect_error" THEN [rows |-> rows, conn |-> "none", raised |-> FALSE]
    ELSE IF db = "ok" /\ "trades" \in tbls
    THEN [rows |-> <<Row(1, f)>> \o SubSeq(rows, 2, Len(rows)), conn |-> "closed",
          raised |-> FALSE]
    ELSE [rows |-> rows, conn |-> "closed", raised |-> FALSE]

\* lines 88-123 for the record f: the rows after the call, the connection
\* ("none" when connect raised, else closed by the finally), and whether
\* the call raised; an insert into a database without the table fails, and
\* so does one of a size that is no number, which sqlite3 binds as NULL
LogTradeToDb(rows, tbls, f, db) ==
    IF db = "connect_error" THEN [rows |-> rows, conn |-> "none", raised |-> FALSE]
    ELSE IF db = "ok" /\ "trades" \in tbls /\ ~FIsNaN(f.size)
    THEN [rows |-> Append(rows, Row(Len(rows) + 1, f)), conn |-> "closed",
          raised |-> FALSE]
    ELSE [rows |-> rows, conn |-> "closed", raised |-> FALSE]

\* the rows after the log_trade_to_db calls among the effects fx
RECURSIVE LogTradesToDb(_, _, _)
LogTradesToDb(rows, fx, db) ==
    IF fx = <<>> THEN rows
    ELSE IF Head(fx).op = "log"
    THEN LogTradesToDb(LogTradeToDb(rows, tables, Head(fx), db).rows, Tail(fx), db)
    ELSE LogTradesToDb(rows, Tail(fx), db)

\* what each log_trade_to_db call among the effects fx came to
Logged(rows, fx, db) ==
    {LogTradeToDb(rows, tables, fx[i], db) : i \in {j \in DOMAIN fx : fx[j].op = "log"}}

RECURSIVE PostedOrders(_)
PostedOrders(fx) ==
    IF fx = <<>> THEN <<>>
    ELSE IF Head(fx).op = "post" THEN <<Head(fx)>> \o PostedOrders(Tail(fx))
    ELSE PostedOrders(Tail(fx))

----------------------------------------------------------------------------
(* execute_copy_trade on its own: one call on every input                  *)

ExecBooks ==
    {Book(<<Num(525, 3), Num(53, 2)>>, <<Num(475, 3)>>),
     Book(<<Num(42, 2)>>, <<Num(38, 2)>>),
     Book(<<Num(60, 2)>>, <<Num(54, 2)>>),
     Book(<<Num(56, 2)>>, <<Num(54, 2)>>),
     Book(<<Num(52495, 5)>>, <<Num(47495, 5)>>),
     Book(<<>>, <<Num(5, 1)>>),
     Book(<<Num(5, 1)>>, <<>>),
     Book(<<NotANumber>>, <<NoneVal>>),
     NoBook("raise"), NoBook("noattr")}

ExecTargets == {NoneVal, Num(0, 0), Num(5, 1), Num(55, 2), Num(4, 1)}

ExecCfgs ==
    {Cfg("true", Str(<<"a">>), Num(1, 1), Num(500, 0)),
     Cfg("true", Str(<<"a">>), Num(3, 1), Num(100, 0)),
     Cfg("false", Str(<<"a">>), Num(1, 0), Num(500, 0)),
     Cfg("true", Str(<<"a">>), Num(0, 0), Num(500, 0)),
     Cfg("true", Str(<<"a">>), Num(-1, 1), Num(500, 0)),
     Cfg("true", Str(<<"a">>), Num(1, 1), Num(0, 0)),
     Cfg("true", Str(<<"a">>), Num(1, 1), Num(-5, 0)),
     Cfg("true", Str(<<"a">>), NotANumber, Num(500, 0)),
     Cfg("true", Str(<<"a">>), Overflowing, Num(500, 0)),
     Cfg("absent", Str(<<"a">>), Absent, Absent)}

ExecFiles ==
    {FileOk(cfg) : cfg \in ExecCfgs}
    \cup {FileBad("missing"), FileBad("corrupt"), FileBad("unreadable")}

ExecCalls ==
    [token : {7, 8}, side : {"BUY", "SELL"}, target : ExecTargets]

\* the target_price argument as the caller passes it
TargetArg(v) == IF v.t = "none" THEN NoFloat ELSE SomeFloat(ParseFloat(v))

ExecInit ==
    /\ pc = "ready"
    /\ call \in ExecCalls
    /\ cfgFile \in ExecFiles
    /\ out = NoOut
    /\ cache = <<>>
    /\ trades = <<>>
    /\ tables = {"trades"}
    /\ orders = <<>>
    /\ NoListener

ExecCall ==
    /\ pc = "ready"
    /\ \E r \in ExecuteCopyTrade(call.token, call.side, TargetArg(call.target),
                                  cfgFile, cache, ExecBooks) :
         \E db \in DbFaults :
           /\ out' = [path |-> r.path, book |-> r.book, fx |-> r.fx, db |-> db,
                      logged |-> Logged(trades, r.fx, db)]
           /\ cache' = r.cache
           /\ trades' = LogTradesToDb(trades, r.fx, db)
           /\ orders' = orders \o PostedOrders(r.fx)
    /\ pc' = "done"
    /\ UNCHANGED <<call, cfgFile, tables, lvars>>

ExecNext == ExecCall

ExecSpec == ExecInit /\ [][ExecNext]_vars

----------------------------------------------------------------------------
(* process_event on its own: one call on every event and configuration     *)

EventParties == {Str(<<"a", "B">>), Str(<<"c", "d">>), NoStr}

EventAssets == {Num(0, 0), Num(7, 0), Absent}

EventAmounts ==
    {<<Num(525000, 0), Num(1000000, 0)>>, <<Num(2000000, 0), Num(1000000, 0)>>,
     <<Num(52340000, 0), Num(100000000, 0)>>, <<Num(0, 0), Num(0, 0)>>}

EventSet ==
    {Event(m, t, ma, ta, q[1], q[2]) :
     m \in EventParties, t \in EventParties,
     ma \in EventAssets, ta \in EventAssets, q \in EventAmounts}

EventConfigs ==
    {Cfg("true", Str(<<"A", "b">>), Num(1, 1), Num(500, 0)),
     Cfg("false", Str(<<"A", "b">>), Num(1, 1), Num(500, 0)),
     Cfg("absent", Str(<<"A", "b">>), Num(1, 1), Num(500, 0)),
     Cfg("true", NoStr, Absent, Absent),
     Cfg("true", NullStr, Absent, Absent)}

EventCalls == [event : EventSet, config : EventConfigs]

EventBooks ==
    {Book(<<Num(525, 3)>>, <<Num(5, 1)>>), NoBook("raise")}

EventInit ==
    /\ pc = "ready"
    /\ call \in EventCalls
    /\ cfgFile \in {FileOk(call.config), FileBad("missing")}
    /\ out = NoOut
    /\ cache = <<>>
    /\ trades = <<>>
    /\ tables = {"trades"}
    /\ orders = <<>>
    /\ NoListener

EventCall ==
    /\ pc = "ready"
    /\ \E r \in ProcessEvent(call.event, call.config, cfgFile, cache, EventBooks) :
         \E db \in DbOutcomes :
           /\ out' = [cls |-> r.cls, path |-> r.path, book |-> r.book, fx |-> r.fx]
           /\ cache' = r.cache
           /\ trades' = LogTradesToDb(trades, r.fx, db)
           /\ orders' = orders \o PostedOrders(r.fx)
    /\ pc' = "done"
    /\ UNCHANGED <<call, cfgFile, tables, lvars>>

EventNext == EventCall

EventSpec == EventInit /\ [][EventNext]_vars

----------------------------------------------------------------------------
(* get_market_details on its own: a few calls, each request coming out in  *)
(* any way                                                                  *)

MaxCalls == 3

MapperIds == {7, 8}

MapperOutcomes ==
    ApiOutcomes \cup HttpFailures
    \cup {"no_question", "no_slug", "no_tokens", "null_tokens", "other_tokens",
          "no_outcome", "numeric_token_id", "bare"}

MapperInit ==
    /\ pc = "ready"
    /\ call = [token |-> 0, side |-> "", target |-> NoneVal]
    /\ cfgFile = FileBad("missing")
    /\ out = NoOut
    /\ cache = <<>>
    /\ trades = <<>>
    /\ tables = {"trades"}
    /\ orders = <<>>
    /\ NoListener

\* one call get_market_details(id); trace keeps the calls made so far, and
\* for each whether the API would have answered with the market at that time
MapperCall ==
    /\ pc = "ready"
    /\ Len(trace) < MaxCalls
    /\ \E id \in MapperIds : \E api \in MapperOutcomes :
         \E r \in GetMarketDetailsOn(cache, id, {api}) :
           /\ cache' = r.cache
           /\ trace' = Append(trace,
                              [id |-> id, asked |-> r.asked, info |-> r.info,
                               api |-> IF r.asked THEN api ELSE "cached",
                               answering |-> api = "ok",
                               raised |-> r.asked
                                          /\ ParseMarket(id, Answer(id, api)).raised])
    /\ UNCHANGED <<pc, call, out, cfgFile, trades, tables, orders, TARGET_WALLET, config,
                   last_block, current_block, events, idx, height, netUp,
                   fetched, skipped>>

MapperNext == MapperCall

MapperSpec == MapperInit /\ [][MapperNext]_vars

----------------------------------------------------------------------------
(* db_setup.init_db, db_setup.init_config and dashboard.get_trades, with    *)
(* log_trade_to_db, on their own                                            *)

MaxOps == 3

\* LIMIT 50
TradesLimit == 50

\* lines 97-102 of db_setup.py
DefaultConfig ==
    Cfg("false",
        Str(<<"0", "x", "6", "0", "3", "1", "b", "6", "e", "e", "d", "1", "c", "9",
              "7", "e", "8", "5", "3", "c", "6", "e", "0", "f", "0", "3", "a", "d",
              "3", "c", "e", "3", "5", "2", "9", "3", "5", "1", "f", "9", "6", "d">>),
        Num(1, 1), Num(5000, 1))

\* a settings file rewritten with the defaults whether it exists or not
InitConfigOverwriting(file, io) ==
    IF io = "ok" THEN [file |-> FileOk(DefaultConfig), raised |-> FALSE]
    ELSE IF io = "write_error" THEN [file |-> FileBad("corrupt"), raised |-> TRUE]
    ELSE [file |-> file, raised |-> TRUE]

\* init_config, lines 91-118: config.json after the call and whether it
\* raised; open() may fail, and a write that fails leaves a truncated file
InitConfig(file, io) ==
    IF file.kind # "missing" THEN [file |-> file, raised |-> FALSE]
    ELSE IF io = "ok" THEN [file |-> FileOk(DefaultConfig), raised |-> FALSE]
    ELSE IF io = "write_error" THEN [file |-> FileBad("corrupt"), raised |-> TRUE]
    ELSE [file |-> file, raised |-> TRUE]

\* init_db, lines 33-72: CREATE TABLE IF NOT EXISTS, errors raised again
InitDb(tbls, db) ==
    IF db = "ok" THEN [tables |-> tbls \cup {"trades"}, raised |-> FALSE]
    ELSE [tables |-> tbls, raised |-> TRUE]

\* for each row, how many rows have a higher id
IdRanks(rows) ==
    [i \in DOMAIN rows |-> Cardinality({j \in DOMAIN rows : rows[j].id > rows[i].id})]

\* ORDER BY id DESC LIMIT n, on the ranks of the rows
ByRank(rows, rank, n) ==
    [k \in 1..n |-> rows[CHOOSE i \in DOMAIN rows : rank[i] = k - 1]]

\* the rows in the order they were written, up to the limit
GetTradesOldestFirst(tbls, rows, db) ==
    IF db # "ok" \/ "trades" \notin tbls THEN [rows |-> <<>>, raised |-> FALSE]
    ELSE [rows |-> SubSeq(rows, 1, IF Len(rows) < TradesLimit THEN Len(rows)
                                   ELSE TradesLimit),
          raised |-> FALSE]

\* get_trades, lines 38-60 of dashboard.py: the query, or [] when sqlite3
\* raises, which it does on a database without the table
GetTrades(tbls, rows, db) ==
    IF db # "ok" \/ "trades" \notin tbls THEN [rows |-> <<>>, raised |-> FALSE]
    ELSE [rows |-> ByRank(rows, IdRanks(rows),
                          IF Len(rows) < TradesLimit THEN Len(rows) ELSE TradesLimit),
          raised |-> FALSE]

\* the records written in the runs below
StoreRecords ==
    {Fx("log", 7, "BUY", FInt(500), FDec(6, 1), "SUCCESS", MarketOf(7)),
     Fx("log", 8, "SELL", FZero, FZero, "FAILED", MarketOf(8))}

\* a log of n rows written earlier
Prefilled(n) ==
    [i \in 1..n |->
       Row(i, IF i % 2 = 1
              THEN Fx("log", 7, "BUY", FInt(500), FDec(6, 1), "SUCCESS", MarketOf(7))
              ELSE Fx("log", 8, "SELL", FZero, FZero, "FAILED", MarketOf(8)))]

\* trades.db before the first call: no table, an empty table, 49 rows
StoreDbs ==
    {[tables |-> {}, rows |-> <<>>], [tables |-> {"trades"}, rows |-> <<>>],
     [tables |-> {"trades"}, rows |-> Prefilled(TradesLimit - 1)]}

StoreFiles ==
    {FileBad("missing"), FileBad("corrupt"),
     FileOk(Cfg("true", Str(<<"A", "b">>), Num(3, 1), Num(100, 0)))}

StoreInit ==
    /\ pc = "ready"
    /\ call = [token |-> 0, side |-> "", target |-> NoneVal]
    /\ cfgFile \in StoreFiles
    /\ out = NoOut
    /\ cache = <<>>
    /\ \E d \in StoreDbs : tables = d.tables /\ trades = d.rows
    /\ orders = <<>>
    /\ NoListener

\* the call op was made: trace keeps the calls made so far
Called(op) ==
    /\ pc = "ready"
    /\ Len(trace) < MaxOps
    /\ trace' = Append(trace, op)
    /\ UNCHANGED <<pc, call, cache, orders, TARGET_WALLET, config, last_block,
                   current_block, events, idx, height, netUp, fetched, skipped>>

StoreLog ==
    /\ Called("log_trade_to_db")
    /\ \E f \in StoreRecords : \E db \in DbOutcomes :
         /\ trades' = LogTradeToDb(trades, tables, f, db).rows
         /\ out' = [op |-> "log_trade_to_db", db |-> db, rows |-> <<>>,
                    raised |-> LogTradeToDb(trades, tables, f, db).raised]
    /\ UNCHANGED <<cfgFile, tables>>

StoreInitDb ==
    /\ Called("init_db")
    /\ \E db \in {"ok", "error"} :
         /\ tables' = InitDb(tables, db).tables
         /\ out' = [op |-> "init_db", db |-> db, rows |-> <<>>,
                    raised |-> InitDb(tables, db).raised]
    /\ UNCHANGED <<cfgFile, trades>>

StoreInitConfig ==
    /\ Called("init_config")
    /\ \E io \in {"ok", "open_error", "write_error"} :
         /\ cfgFile' = InitConfig(cfgFile, io).file
         /\ out' = [op |-> "init_config", db |-> io, rows |-> <<>>,
                    raised |-> InitConfig(cfgFile, io).raised]
    /\ UNCHANGED <<trades, tables>>

StoreGetTrades ==
    /\ Called("get_trades")
    /\ \E db \in {"ok", "error"} :
         out' = [op |-> "get_trades", db |-> db,
                 rows |-> GetTrades(tables, trades, db).rows,
                 raised |-> GetTrades(tables, trades, db).raised]
    /\ UNCHANGED <<cfgFile, trades, tables>>

StoreNext ==
    \/ StoreLog
    \/ StoreInitDb
    \/ StoreInitConfig
    \/ StoreGetTrades

StoreSpec == StoreInit /\ [][StoreNext]_vars

----------------------------------------------------------------------------
(* dashboard.calculate_metrics on its own: one call on every list          *)

MaxRecords == 3

\* a row as get_trades returns it: (id, timestamp, market, outcome, side,
\* size_usdc, price, status)
TradeRecord(id, timestamp, size_usdc, status) ==
    <<id, timestamp, "Will it rain?", "Yes", "BUY", size_usdc, FDec(5, 1), status>>

\* the last trade time: None, or a timestamp
NoTime == [t |-> "none", v |-> 0]

SomeTime(v) == [t |-> "num", v |-> v]

\* sum() of line 74: the additions are made from 0, in the order of the list
RECURSIVE SumFrom(_, _)
SumFrom(acc, trs) ==
    IF trs = <<>> THEN acc ELSE SumFrom(FAdd(acc, Head(trs)[6]), Tail(trs))

\* the time taken from the end of the list
CalculateMetricsFromLast(trs) ==
    IF trs = <<>>
    THEN [total_trades |-> 0, total_volume |-> FZero, last_trade_time |-> NoTime]
    ELSE [total_trades |-> Len(trs), total_volume |-> SumFrom(FInt(0), trs),
          last_trade_time |-> SomeTime(trs[Len(trs)][2])]

\* calculate_metrics, lines 70-77
CalculateMetrics(trs) ==
    IF trs = <<>>
    THEN [total_trades |-> 0, total_volume |-> FZero, last_trade_time |-> NoTime]
    ELSE [total_trades |-> Len(trs), total_volume |-> SumFrom(FInt(0), trs),
          last_trade_time |-> SomeTime(trs[1][2])]

MetricsRecords ==
    {TradeRecord(4, 400, FDec(1, 1), "SUCCESS"), TradeRecord(3, 300, FDec(2, 1), "FAILED"),
     TradeRecord(2, 200, FInt(500), "SUCCESS"), TradeRecord(1, 100, FZero, "FAILED")}

\* the lists of up to MaxRecords records
MetricsLists == UNION {[1..n -> MetricsRecords] : n \in 0..MaxRecords}

MetricsInit ==
    /\ pc = "ready"
    /\ call \in [trades : MetricsLists]
    /\ cfgFile = FileBad("missing")
    /\ out = NoOut
    /\ cache = <<>>
    /\ trades = <<>>
    /\ tables = {"trades"}
    /\ orders = <<>>
    /\ NoListener

MetricsCall ==
    /\ pc = "ready"
    /\ out' = CalculateMetrics(call.trades)
    /\ pc' = "done"
    /\ UNCHANGED <<call, cfgFile, cache, trades, tables, orders, lvars>>

MetricsNext == MetricsCall

MetricsSpec == MetricsInit /\ [][MetricsNext]_vars

----------------------------------------------------------------------------
(* dashboard.py: the script runs of the dashboard sessions on config.json   *)

MaxRuns == 3

DashSessions == {1, 2}

\* what the user did to make the script run: a button, or nothing (the
\* rerun of line 223)
DashClicks == {"none", "start", "stop", "update"}

\* load_config, lines 14-24: the dict, or None
LoadConfig(file) ==
    IF file.kind = "ok" THEN [t |-> "dict", cfg |-> file.cfg]
    ELSE [t |-> "none", cfg |-> NoCfg]

\* st.button of lines 107, 114 and 150 for the button name: true in the run
\* its click started; a click on a button that this run draws disabled may
\* or may not count
ButtonFires(click, name, disabled) ==
    IF click # name THEN {FALSE} ELSE IF disabled THEN {TRUE, FALSE} ELSE {TRUE}

\* the values of the three widgets of lines 125-147 when Update Settings is
\* pressed
UpdateValues ==
    {[copy_ratio |-> Num(3, 1), max_cap_usdc |-> Num(100, 0),
      target_wallet |-> Str(<<"c", "d">>)]}

\* lines 108, 115 and 151-153: the dict the handler of the click hands to
\* save_config, made from the dict cfg the run loaded
Handled(click, cfg, v) ==
    IF click = "start" THEN [cfg EXCEPT !.is_active = "true"]
    ELSE IF click = "stop" THEN [cfg EXCEPT !.is_active = "false"]
    ELSE [cfg EXCEPT !.copy_ratio = v.copy_ratio, !.max_cap_usdc = v.max_cap_usdc,
                     !.target_wallet = v.target_wallet]

\* a session between two runs of the script
DashIdle == [pc |-> "idle", click |-> "none", cfg |-> NoCfg]

\* the stored switch is on
StoredActive(file) == file.kind = "ok" /\ file.cfg.is_active = "true"

DashFiles ==
    {FileOk(Cfg("true", Str(<<"A", "b">>), Num(1, 1), Num(500, 0))),
     FileOk(Cfg("false", Str(<<"A", "b">>), Num(1, 1), Num(500, 0)))}

DashInit ==
    /\ pc = "ready"
    /\ call = [s \in DashSessions |-> DashIdle]
    /\ cfgFile \in DashFiles
    /\ out = [stopped |-> FALSE]
    /\ cache = <<>>
    /\ trades = <<>>
    /\ tables = {"trades"}
    /\ orders = <<>>
    /\ NoListener

\* a run of the script up to its button: line 92 loads config.json, and the
\* run goes on to a handler when a button fires; trace keeps the runs, and
\* out whether STOP was saved with no START pressed or saved since
DashRun(s) ==
    /\ call[s].pc = "idle"
    /\ Len(trace) < MaxRuns
    /\ \E click \in DashClicks :
         /\ trace' = Append(trace, [session |-> s, click |-> click])
         /\ out' = IF click = "start" THEN [stopped |-> FALSE] ELSE out
         /\ IF LoadConfig(cfgFile).t = "none" \/ click = "none"
            THEN call' = call
            ELSE \E fires \in ButtonFires(click, click,
                                          \/ click = "start" /\ StoredActive(cfgFile)
                                          \/ click = "stop" /\ ~StoredActive(cfgFile)) :
                   call' = [call EXCEPT ![s] =
                              IF fires
                              THEN [pc |-> "loaded", click |-> click,
                                    cfg |-> LoadConfig(cfgFile).cfg]
                              ELSE DashIdle]
    /\ UNCHANGED <<pc, cfgFile, cache, trades, tables, orders, TARGET_WALLET, config,
                   last_block, current_block, events, idx, height, netUp, fetched,
                   skipped>>

\* the handler of the button and line 30 of save_config: the dict is
\* changed and config.json opened for writing, which empties it
DashOpen(s) ==
    /\ call[s].pc = "loaded"
    /\ \E v \in UpdateValues : \E o \in {"ok", "error"} :
         IF o = "ok"
         THEN /\ cfgFile' = FileBad("corrupt")
              /\ call' = [call EXCEPT ![s] =
                            [pc |-> "saving", click |-> call[s].click,
                             cfg |-> Handled(call[s].click, call[s].cfg, v)]]
         ELSE /\ cfgFile' = cfgFile
              /\ call' = [call EXCEPT ![s] = DashIdle]
    /\ UNCHANGED <<pc, out, cache, trades, tables, orders, lvars>>

\* line 31 of save_config: the dict is written; the run ends or starts again
DashDump(s) ==
    /\ call[s].pc = "saving"
    /\ \E o \in {"ok", "error"} :
         IF o = "ok"
         THEN /\ cfgFile' = FileOk(call[s].cfg)
              /\ out' = IF call[s].click = "stop" THEN [stopped |-> TRUE]
                         ELSE IF call[s].click = "start" THEN [stopped |-> FALSE]
                         ELSE out
         ELSE UNCHANGED <<cfgFile, out>>
    /\ call' = [call EXCEPT ![s] = DashIdle]
    /\ UNCHANGED <<pc, cache, trades, tables, orders, lvars>>

DashNext ==
    \E s \in DashSessions :
      \/ DashRun(s)
      \/ DashOpen(s)
      \/ DashDump(s)

DashSpec == DashInit /\ [][DashNext]_vars

----------------------------------------------------------------------------
(* listener.start_listener: the supervisor, the ledger and the settings     *)
(* store around it                                                          *)

MaxHeight == 2

\* an entry of get_logs' result: a log with its decoded arguments, or one
\* that has no 'args'
Log(e) == [hasArgs |-> TRUE, args |-> e]

BuyAsMaker ==
    Event(Str(<<"a", "B">>), Str(<<"c", "d">>), Num(0, 0), Num(7, 0),
          Num(525000, 0), Num(1000000, 0))

SellAsTaker ==
    Event(Str(<<"c", "d">>), Str(<<"A", "b">>), Num(0, 0), Num(7, 0),
          Num(500000, 0), Num(1000000, 0))

OtherTrade ==
    Event(Str(<<"c", "d">>), Str(<<"e", "f">>), Num(0, 0), Num(7, 0),
          Num(400000, 0), Num(1000000, 0))

NoArgs == [hasArgs |-> FALSE, args |-> OtherTrade]

\* the OrderFilled logs the ledger holds in each block
BlockLogs(b) ==
    CASE b = 1 -> <<Log(BuyAsMaker), Log(OtherTrade)>>
      [] b = 2 -> <<NoArgs, Log(SellAsTaker)>>
      [] OTHER -> <<>>

\* contract.events.OrderFilled.get_logs(from_block, to_block)
RECURSIVE GetLogs(_, _)
GetLogs(from_block, to_block) ==
    IF from_block > to_block THEN <<>>
    ELSE BlockLogs(from_block) \o GetLogs(from_block + 1, to_block)

ListenerFiles ==
    {FileOk(Cfg("true", Str(<<"A", "b">>), Num(1, 1), Num(500, 0))),
     FileOk(Cfg("false", Str(<<"A", "b">>), Num(1, 1), Num(100, 0))),
     FileOk(Cfg("true", NullStr, Absent, Absent)),
     FileBad("missing"), FileBad("corrupt"), FileBad("unreadable")}

ListenerBooks == {Book(<<Num(525, 3)>>, <<Num(5, 1)>>), NoBook("raise")}

NoCall == [token |-> 0, side |-> "", target |-> NoneVal]

\* the supervisor has neither returned nor been ended by an exception
Running == pc \notin {"exited", "crashed"}

Init ==
    /\ pc = "start"
    /\ call = NoCall
    /\ out = NoOut
    /\ cfgFile \in ListenerFiles
    /\ cache = <<>>
    /\ trades = <<>>
    /\ tables = {"trades"}
    /\ orders = <<>>
    /\ TARGET_WALLET = NoStr
    /\ config = NoCfg
    /\ last_block = 0
    /\ current_block = 0
    /\ events = <<>>
    /\ idx = 0
    /\ height = 0
    /\ netUp \in BOOLEAN
    /\ fetched = <<>>
    /\ skipped = {}
    /\ trace = <<>>

\* lines 207-218: the startup configuration, or return
Startup ==
    /\ pc = "start"
    /\ IF cfgFile.kind = "ok" /\ GetStr(cfgFile.cfg.target_wallet).t = "str"
       THEN /\ config' = cfgFile.cfg
            /\ TARGET_WALLET' = Str(Lower(GetStr(cfgFile.cfg.target_wallet).s))
            /\ pc' = "connecting"
       ELSE /\ pc' = "exited"
            /\ UNCHANGED <<config, TARGET_WALLET>>
    /\ UNCHANGED <<call, out, cfgFile, cache, trades, tables, orders, last_block,
                   current_block, events, idx, height, netUp, fetched,
                   skipped, trace>>

\* one pass of the try block of lines 223-238
ConnectOutcomes(up) == IF up THEN {"connected", "query_failed"} ELSE {"unreachable"}

Connect ==
    /\ pc = "connecting"
    /\ \E o \in ConnectOutcomes(netUp) :
         pc' = IF o = "connected" THEN "setup" ELSE "connecting"
    /\ UNCHANGED <<call, out, cfgFile, cache, trades, tables, orders, lvars>>

\* w3.eth.block_number
HeightQueries(up) == IF up THEN {"ok", "error"} ELSE {"error"}

\* lines 241-254, which no try encloses: the contract instance and the
\* initial cursor
Setup ==
    /\ pc = "setup"
    /\ \E q \in HeightQueries(netUp) :
         IF q = "ok"
         THEN /\ last_block' = height
              /\ fetched' = <<>>
              /\ pc' = "polling"
         ELSE /\ pc' = "crashed"
              /\ UNCHANGED <<last_block, fetched>>
    /\ UNCHANGED <<call, out, cfgFile, cache, trades, tables, orders, TARGET_WALLET,
                   config, current_block, events, idx, height, netUp, skipped,
                   trace>>

\* a configuration kept from the iteration before
ReloadedCached(file, wallet) == config

\* a fallback that leaves the bot switched on
ReloadedStayingActive(file, wallet) ==
    IF file.kind = "ok" THEN file.cfg ELSE Cfg("true", wallet, Absent, Absent)

\* lines 260-268: the configuration a polling iteration runs with
Reloaded(file, wallet) ==
    IF file.kind = "ok" THEN file.cfg ELSE Cfg("false", wallet, Absent, Absent)

\* line 278
NewBlocks(current, last) == current > last

\* a range that starts at the cursor itself
FromBlockAtCursor(last) == last

\* line 280
FromBlock(last) == last + 1

\* lines 258-289 when get_logs answers: the iteration up to the for loop
PollFetch ==
    /\ pc = "polling"
    /\ cfgFile.kind # "unreadable"
    /\ netUp
    /\ NewBlocks(height, last_block)
    /\ config' = Reloaded(cfgFile, TARGET_WALLET)
    /\ current_block' = height
    /\ events' = GetLogs(FromBlock(last_block), height)
    /\ idx' = 0
    /\ fetched' = Append(fetched, <<FromBlock(last_block), height>>)
    /\ trace' = <<>>
    /\ pc' = "batch"
    /\ UNCHANGED <<call, out, cfgFile, cache, trades, tables, orders, TARGET_WALLET,
                   last_block, height, netUp, skipped>>

\* lines 258-305 when there is no new block: the iteration ends in its sleep
PollIdle ==
    /\ pc = "polling"
    /\ cfgFile.kind # "unreadable"
    /\ netUp
    /\ ~NewBlocks(height, last_block)
    /\ config' = Reloaded(cfgFile, TARGET_WALLET)
    /\ current_block' = height
    /\ pc' = "polling"
    /\ UNCHANGED <<call, out, cfgFile, cache, trades, tables, orders, TARGET_WALLET,
                   last_block, events, idx, height, netUp, fetched,
                   skipped, trace>>

\* the ways an iteration leaves the try of line 258 by an exception: the
\* handler it reaches, and config and current_block as they stand then
PollFaults ==
    IF cfgFile.kind = "unreadable"
    THEN {[pc |-> "poll_fault", config |-> config, current_block |-> current_block]}
    ELSE IF ~netUp
    THEN {[pc |-> "conn_fault", config |-> Reloaded(cfgFile, TARGET_WALLET),
           current_block |-> current_block]}
    ELSE {[pc |-> "poll_fault", config |-> Reloaded(cfgFile, TARGET_WALLET),
           current_block |-> current_block]}
         \cup (IF NewBlocks(height, last_block)
               THEN {[pc |-> "poll_fault", config |-> Reloaded(cfgFile, TARGET_WALLET),
                      current_block |-> height]}
               ELSE {})

PollFault ==
    /\ pc = "polling"
    /\ \E f \in PollFaults :
         /\ pc' = f.pc
         /\ config' = f.config
         /\ current_block' = f.current_block
    /\ UNCHANGED <<call, out, cfgFile, cache, trades, tables, orders, TARGET_WALLET,
                   last_block, events, idx, height, netUp, fetched,
                   skipped, trace>>

\* the effects fx as those of the batch's event number i: what was done, for
\* which token and side, and for an "event" entry how the event ended
Tagged(i, fx) ==
    [j \in DOMAIN fx |->
       [event |-> i, op |-> fx[j].op, token |-> fx[j].token, side |-> fx[j].side,
        status |-> IF fx[j].op = "event" THEN fx[j].status ELSE ""]]

\* what handling one event left behind: how it ended, then its effects
EventFx(r) ==
    <<Fx("event", r.cls.token_id, r.cls.action, FZero, FZero, r.path,
         DefaultResponse)>> \o r.fx

\* a loop that takes the events of the list from its end
NextEventFromEnd(i, n) == n - i

\* the for loop of line 292 takes the events in the order of the list: the
\* event taken after i of the n events
NextEvent(i, n) == i + 1

\* a loop body whose errors reach the handler of the polling iteration
AfterEventEscaping(path) ==
    IF path \in {"no_args", "event_error"} THEN "poll_fault" ELSE "batch"

\* lines 296-299: the except of the loop body ends with continue
AfterEvent(path) == "batch"

\* a cursor set to the first block of the range
CursorAtFromBlock(current, last) == last + 1

\* a cursor the batch leaves where it was
CursorLeftByBatch(current, last) == last

\* line 302
CursorAfterBatch(current, last) == current

\* lines 292-299 for one event
ProcessNext ==
    /\ pc = "batch"
    /\ idx < Len(events)
    /\ IF ~events[NextEvent(idx, Len(events))].hasArgs
       THEN /\ trace' = trace \o Tagged(NextEvent(idx, Len(events)),
                                        EventFx(Ended(NoTrade("raise"), "no_args",
                                                      <<>>, cache)))
            /\ pc' = AfterEvent("no_args")
            /\ UNCHANGED <<cache, trades, orders>>
       ELSE \E r \in ProcessEvent(events[NextEvent(idx, Len(events))].args, config,
                                  cfgFile, cache, ListenerBooks) :
              \E db \in DbOutcomes :
                /\ cache' = r.cache
                /\ trades' = LogTradesToDb(trades, r.fx, db)
                /\ orders' = orders \o PostedOrders(r.fx)
                /\ trace' = trace \o Tagged(NextEvent(idx, Len(events)), EventFx(r))
                /\ pc' = AfterEvent(r.path)
    /\ idx' = idx + 1
    /\ UNCHANGED <<call, out, cfgFile, tables, TARGET_WALLET, config, last_block,
                   current_block, events, height, netUp, fetched,
                   skipped>>

\* lines 301-305: the cursor, then the sleep
BatchEnd ==
    /\ pc = "batch"
    /\ idx = Len(events)
    /\ last_block' = CursorAfterBatch(current_block, last_block)
    /\ pc' = "polling"
    /\ UNCHANGED <<call, out, cfgFile, cache, trades, tables, orders, TARGET_WALLET,
                   config, current_block, events, idx, height, netUp, fetched, skipped,
                   trace>>

\* a reconnect: a new connection, and on it the contract and the cursor
ReconnectOutcomes(up) ==
    IF up THEN {"reconnected", "query_failed"} ELSE {"unreachable"}

\* a reconnect that resumes from the last processed block
CursorKeptAtReconnect(h, last) == last

\* lines 323 and 346: the cursor after a reconnect that read the height h
CursorAfterReconnect(h, last) == h

\* the blocks the ledger holds above the cursor when the height h is read
BlocksAbove(last, h) == (last + 1)..h

\* lines 313-327 and 335-346: the reconnect attempt of a handler, with the
\* endpoint answering (up) or not
Reconnect(up) ==
    \E o \in ReconnectOutcomes(up) :
      IF o = "reconnected"
      THEN /\ last_block' = CursorAfterReconnect(height, last_block)
           /\ fetched' = <<>>
           /\ skipped' = skipped \cup BlocksAbove(last_block, height)
      ELSE UNCHANGED <<last_block, fetched, skipped>>

\* lines 307-327: the handler of ConnectionError
ConnFaultHandler ==
    /\ pc = "conn_fault"
    /\ Reconnect(netUp)
    /\ pc' = "polling"
    /\ UNCHANGED <<call, out, cfgFile, cache, trades, tables, orders, TARGET_WALLET,
                   config, current_block, events, idx, height, netUp, trace>>

\* a handler that sets the connection up again after every fault
ReconnectAlways(up) == TRUE

\* line 336: is_connected() answering up, the handler reconnects or not
ReconnectNeeded(up) == ~up

\* lines 329-348: the handler of any other exception reconnects only when
\* is_connected() is false, and the endpoint may answer again by then
PollFaultHandler ==
    /\ pc = "poll_fault"
    /\ IF ~ReconnectNeeded(netUp)
       THEN UNCHANGED <<last_block, fetched, skipped, netUp>>
       ELSE \E up \in BOOLEAN : netUp' = up /\ Reconnect(up)
    /\ pc' = "polling"
    /\ UNCHANGED <<call, out, cfgFile, cache, trades, tables, orders, TARGET_WALLET,
                   config, current_block, events, idx, height, trace>>

\* the ledger grows by a block
NewBlock ==
    /\ Running
    /\ height < MaxHeight
    /\ height' = height + 1
    /\ UNCHANGED <<pc, call, out, cfgFile, cache, trades, tables, orders, TARGET_WALLET,
                   config, last_block, current_block, events, idx, netUp, fetched, skipped,
                   trace>>

\* the RPC endpoint stops or starts answering
NetChange ==
    /\ Running
    /\ netUp' = ~netUp
    /\ UNCHANGED <<pc, call, out, cfgFile, cache, trades, tables, orders, TARGET_WALLET,
                   config, last_block, current_block, events, idx, height, fetched, skipped,
                   trace>>

\* config.json is rewritten, removed or made unreadable from outside
ConfigWrite ==
    /\ Running
    /\ \E f \in ListenerFiles \ {cfgFile} : cfgFile' = f
    /\ UNCHANGED <<pc, call, out, cache, trades, tables, orders, lvars>>

Next ==
    \/ Startup
    \/ Connect
    \/ Setup
    \/ PollFetch
    \/ PollIdle
    \/ PollFault
    \/ ProcessNext
    \/ BatchEnd
    \/ ConnFaultHandler
    \/ PollFaultHandler
    \/ NewBlock
    \/ NetChange
    \/ ConfigWrite

Spec == Init /\ [][Next]_vars

\* line 226 answering true and lines 230-231 answering: the connect loop ends
Connected == Connect /\ pc' = "setup"

\* the steps that take the supervisor to its polling loop, or back to it
Progress ==
    \/ Startup
    \/ Connected
    \/ Setup
    \/ ConnFaultHandler
    \/ PollFaultHandler

\* the process runs on: a step it can take is taken, and an endpoint that
\* keeps answering is connected to sooner or later
Fairness == WF_vars(Progress)

FairSpec == Init /\ [][Next]_vars /\ Fairness

----------------------------------------------------------------------------
(* Properties of start_listener                                            *)

\* how an event ends when handling it fails
FailedPaths ==
    {"no_args", "event_error", "client_init_failed", "quote_fetch_failed",
     "submission_failed", "order_args_failed"}

\* the ranges fetched since the last (re)connect, and the cursor after them
RangesInOrder ==
    /\ \A i \in DOMAIN fetched : fetched[i][1] <= fetched[i][2]
    /\ \A i \in 1..(Len(fetched) - 1) : fetched[i + 1][1] = fetched[i][2] + 1
    /\ pc = "batch" =>
         /\ fetched # <<>>
         /\ fetched[Len(fetched)] = <<last_block + 1, current_block>>
         /\ events = GetLogs(last_block + 1, current_block)
    /\ (pc # "batch" /\ fetched # <<>>) => last_block = fetched[Len(fetched)][2]

\* a step of a polling iteration that read the height h with the cursor at c
PollingStep ==
    /\ (pc = "polling" /\ pc' = "batch") =>
         /\ height > last_block
         /\ current_block' = height
         /\ fetched' = Append(fetched, <<last_block + 1, height>>)
         /\ events' = GetLogs(last_block + 1, height)
         /\ last_block' = last_block
    /\ (pc = "polling" /\ pc' = "polling" /\ current_block' <= last_block) =>
         fetched' = fetched /\ last_block' = last_block
    /\ (pc = "batch" /\ pc' = "polling") => last_block' = current_block

(* C6: a polling iteration that reads a height h above the cursor c fetches
   the logs of exactly the blocks c+1..h and leaves the cursor at h once the
   batch is processed; with h <= c it fetches nothing and leaves the cursor;
   so the ranges fetched since the last (re)connect follow one another with
   no block left out and none fetched twice. *)
C6_ContiguousRanges == []RangesInOrder /\ [][PollingStep]_vars

\* two ranges fetched one after the other, and the second batch processed
C6_TwoRangesFetched ==
    /\ pc = "polling"
    /\ Len(fetched) = 2
    /\ fetched[2][1] = fetched[1][2] + 1
    /\ last_block = fetched[2][2]

(* C7: the events of a batch are handled one at a time in the order of the
   list: every effect of an event comes before every effect of a later
   event, the events handled so far are the first idx of the list, and each
   is handled once. *)
C7_OneEventAtATime ==
    /\ \A i \in DOMAIN trace : \A j \in DOMAIN trace :
         i < j => trace[i].event <= trace[j].event
    /\ {trace[i].event : i \in DOMAIN trace} = 1..idx
    /\ \A i \in DOMAIN trace :
         (trace[i].op = "event") <=> (i = 1 \/ trace[i - 1].event < trace[i].event)

\* two orders of one batch, for its first and its fourth event
C7_TwoOrdersInOneBatch ==
    \E i \in DOMAIN trace : \E j \in DOMAIN trace :
      /\ i < j
      /\ trace[i].op = "post" /\ trace[i].event = 1
      /\ trace[j].op = "post" /\ trace[j].event = 4

(* C8: whatever happens to an event of a batch, the loop goes on: the
   supervisor leaves the batch only after its last event, with the cursor at
   the fetched height, and then polls again; it never enters a fault handler
   from inside a batch. *)
C8_EventErrorsStayLocal ==
    [][pc = "batch" =>
         /\ pc' \in {"batch", "polling"}
         /\ pc' = "batch" => idx' \in {idx, idx + 1}
         /\ pc' = "polling" => idx = Len(events) /\ last_block' = current_block]_vars

\* a batch that is through, with an event that failed before a later one
C8_FailedEventThenLater ==
    /\ pc = "polling"
    /\ last_block = current_block
    /\ idx = Len(events)
    /\ \E i \in DOMAIN trace : \E j \in DOMAIN trace :
         /\ trace[i].op = "event" /\ trace[i].status \in FailedPaths
         /\ trace[j].op = "event" /\ trace[i].event < trace[j].event

(* C9: once the startup configuration is loaded, the supervisor is
   connecting or polling in every state: no ledger fault and no error of an
   event ends it. *)
C9_SupervisorNeverEnds ==
    pc \notin {"start", "exited"} =>
      pc \in {"connecting", "setup", "polling", "batch", "conn_fault", "poll_fault"}

(* C10: the cursor changes only at the end of a batch, to the height read in
   that iteration, which is above it; or when a connection is set up or set
   up again, to the height read then. *)
C10_CursorMoves ==
    [][last_block' # last_block =>
         \/ /\ pc = "batch" /\ pc' = "polling"
            /\ last_block' = current_block
            /\ last_block' > last_block
         \/ /\ pc \in {"setup", "conn_fault", "poll_fault"} /\ pc' = "polling"
            /\ last_block' = height']_vars

\* the cursor moved by a batch of two blocks
C10_CursorAdvancedByBatch ==
    /\ pc = "polling"
    /\ Len(fetched) = 1
    /\ fetched[1][2] = fetched[1][1] + 1
    /\ last_block = fetched[1][2]

\* the sides of the target's trades in the logs of block b
TargetSides(b) == IF b = 1 THEN {"BUY"} ELSE IF b = 2 THEN {"SELL"} ELSE {}

\* a block a reconnect moved the cursor over is below the cursor, in no range
\* fetched since, and none of the target's trades in it has been mirrored
SkippedStaySkipped ==
    \A b \in skipped :
      /\ b <= last_block
      /\ \A i \in DOMAIN fetched : b \notin fetched[i][1]..fetched[i][2]
      /\ \A i \in DOMAIN orders : orders[i].side \notin TargetSides(b)

\* a handler either leaves the cursor or sets it to the height it reads, and
\* the fetch after it starts one block above the cursor
ReconnectStep ==
    /\ pc \in {"conn_fault", "poll_fault"} =>
         \/ UNCHANGED <<last_block, fetched, skipped>>
         \/ /\ last_block' = height
            /\ fetched' = <<>>
            /\ skipped' = skipped \cup (last_block + 1)..height
    /\ (pc = "polling" /\ pc' = "batch") =>
         fetched' = Append(fetched, <<last_block + 1, current_block'>>)

(* C11: a successful reconnect sets the cursor to the height h' read then
   and the next fetch starts at h'+1: the blocks between the cursor before
   the outage and h' are never fetched, and the target's trades in them are
   never mirrored. *)
C11_OutageBlocksSkipped == []SkippedStaySkipped /\ [][ReconnectStep]_vars

\* block 1 went by during an outage, block 2 was fetched after the reconnect
C11_SkippedThenFetched ==
    /\ 1 \in skipped
    /\ fetched = <<(<<2, 2>>)>>
    /\ pc = "polling"
    /\ last_block = 2

\* in the polling loop: between two iterations, or in the batch of one
InPollingLoop == pc \in {"polling", "batch"}

(* C12: the connection is retried without limit, at startup and after a
   loss: if the endpoint answers from some time on, a supervisor that has
   loaded its startup configuration is in its polling loop again and
   again. *)
C12_EventuallyPolling ==
    <>[]netUp => (<>(pc = "exited") \/ []<>InPollingLoop)

\* the same for a supervisor that no fault has ended
C12_EventuallyPollingUnlessEnded ==
    <>[]netUp => (<>(pc \in {"exited", "crashed"}) \/ []<>InPollingLoop)

\* a handler step that sets the connection up again, the cursor read anew,
\* or that ends with no endpoint answering
HandlerReconnects ==
    pc \in {"conn_fault", "poll_fault"} =>
      ((fetched' = <<>> /\ last_block' = height') \/ ~netUp')

(* C13: a fault of a polling iteration is followed by a new connection
   before logs are fetched again: the handler of the fault either sets the
   connection up again, with the cursor read anew, or leaves the supervisor
   without an endpoint that answers, so that it comes back to a handler. *)
C13_FaultsReconnect == [][HandlerReconnects]_vars

----------------------------------------------------------------------------
(* Properties of process_event                                             *)

\* every field of the event is there
WellFormed(e) ==
    /\ e.maker.t = "str" /\ e.taker.t = "str"
    /\ e.makerAssetId.t = "num" /\ e.takerAssetId.t = "num"
    /\ e.makerAmountFilled.t = "num" /\ e.takerAmountFilled.t = "num"

\* the party is the target account, compared without regard to case
IsTarget(party) ==
    /\ call.config.target_wallet.t = "str"
    /\ party.t = "str"
    /\ Lower(party.s) = Lower(call.config.target_wallet.s)

\* the side of the event the target is on, the maker side for a trade of the
\* target with itself
TargetIsMaker == IsTarget(call.event.maker)

OwnAsset ==
    IF TargetIsMaker THEN call.event.makerAssetId.n ELSE call.event.takerAssetId.n

OtherAsset ==
    IF TargetIsMaker THEN call.event.takerAssetId.n ELSE call.event.makerAssetId.n

OwnAmount ==
    IF TargetIsMaker THEN call.event.makerAmountFilled.n
    ELSE call.event.takerAmountFilled.n

OtherAmount ==
    IF TargetIsMaker THEN call.event.takerAmountFilled.n
    ELSE call.event.makerAmountFilled.n

(* C1: for an event with the target as maker or taker, the trade is a BUY
   when the asset id of the target's own side is 0 and a SELL otherwise; the
   instrument is the counterparty's asset for a BUY and the target's own for
   a SELL; the quote amount is the target's own filled amount for a BUY and
   the counterparty's for a SELL, the base amount the other one. *)
C1_Classification ==
    (/\ pc = "done"
     /\ WellFormed(call.event)
     /\ IsTarget(call.event.maker) \/ IsTarget(call.event.taker))
    => /\ out.cls.kind = "trade"
       /\ out.cls.action = (IF OwnAsset = 0 THEN "BUY" ELSE "SELL")
       /\ out.cls.token_id = (IF OwnAsset = 0 THEN OtherAsset ELSE OwnAsset)
       /\ out.cls.usdc_amount = (IF OwnAsset = 0 THEN OwnAmount ELSE OtherAmount)
       /\ out.cls.token_amount = (IF OwnAsset = 0 THEN OtherAmount ELSE OwnAmount)

\* the target sold as taker
C1_TakerSold ==
    /\ pc = "done"
    /\ WellFormed(call.event)
    /\ IsTarget(call.event.taker) /\ ~IsTarget(call.event.maker)
    /\ call.event.takerAssetId.n # 0 /\ call.event.makerAssetId.n = 0
    /\ out.cls.action = "SELL"
    /\ out.cls.token_id = call.event.takerAssetId.n

\* the two characters are one letter, in either case
SameLetter(x, y) ==
    \/ x = y
    \/ {x, y} \in {{"a", "A"}, {"b", "B"}, {"c", "C"}, {"d", "D"}, {"e", "E"},
                  {"f", "F"}}

\* the address of a party of the event, "" for a party the event lacks, is
\* the configured target's up to the case of its letters
NamesTarget(party) ==
    /\ Len(GetStr(party).s) = Len(GetStr(call.config.target_wallet).s)
    /\ \A i \in DOMAIN GetStr(party).s :
         SameLetter(GetStr(party).s[i], GetStr(call.config.target_wallet).s[i])

\* the configured target is a string, as are the parties
Comparable ==
    /\ GetStr(call.config.target_wallet).t = "str"
    /\ GetStr(call.event.maker).t = "str"
    /\ GetStr(call.event.taker).t = "str"

(* C14: an event whose maker and taker both differ from the target by more
   than the case of their letters leaves no trace: no label lookup, no call
   of the executor, no order, no record; an event with a party that differs
   from the target in case only is classified as a trade of the target. *)
C14_OthersLeaveNoTrace ==
    (pc = "done" /\ Comparable) =>
      IF NamesTarget(call.event.maker) \/ NamesTarget(call.event.taker)
      THEN out.cls.kind = "trade" /\ out.path # "not_target"
      ELSE /\ out.path = "not_target"
           /\ out.fx = <<>>
           /\ cache = <<>>
           /\ trades = <<>>
           /\ orders = <<>>

\* an event between two other accounts, handled by an active bot
C14_OtherAccountsIgnored ==
    /\ pc = "done"
    /\ call.config.is_active = "true"
    /\ call.config.target_wallet = Str(<<"A", "b">>)
    /\ call.event.maker = Str(<<"c", "d">>)
    /\ call.event.taker = Str(<<"c", "d">>)
    /\ call.event.makerAssetId = Num(0, 0)
    /\ call.event.takerAssetId = Num(7, 0)
    /\ out.path = "not_target"
    /\ out.fx = <<>>

(* C15: with is_active false or absent, a trade of the target is classified
   and its label looked up, and that is all: execute_copy_trade is not
   called, so no client is made, no order book asked for, no order
   submitted and no record written. *)
C15_InactiveNeverExecutes ==
    (/\ pc = "done"
     /\ call.config.is_active \in {"false", "absent"}
     /\ Comparable
     /\ NamesTarget(call.event.maker) \/ NamesTarget(call.event.taker))
    => /\ out.cls.kind = "trade"
       /\ out.path = "inactive"
       /\ Len(out.fx) = 1
       /\ out.fx[1].op = "label" /\ out.fx[1].token = out.cls.token_id
       /\ CacheIds(cache) = {out.cls.token_id}
       /\ out.book.kind = "unasked"
       /\ trades = <<>>
       /\ orders = <<>>

\* a purchase of the target seen by a bot whose settings lack is_active
C15_AbsentSwitchSkips ==
    /\ pc = "done"
    /\ call.config.is_active = "absent"
    /\ NamesTarget(call.event.maker)
    /\ out.cls.kind = "trade" /\ out.cls.action = "BUY"
    /\ out.path = "inactive"
    /\ Len(out.fx) = 1 /\ out.fx[1].op = "label"

\* the reference prices execute_copy_trade was called with
Handed == {out.fx[i].price : i \in {j \in DOMAIN out.fx : out.fx[j].op = "exec"}}

\* an active bot has classified a trade of the target
Mirrored ==
    /\ pc = "done"
    /\ out.cls.kind = "trade"
    /\ call.config.is_active = "true"

\* the binary64 nearest to usdc_amount / token_amount
Quotient == FDiv(FInt(out.cls.usdc_amount), FInt(out.cls.token_amount))

\* 2^-51: two units in the last place, relative to the value
TwoUlps == [s |-> 1, m |-> WTwo52, e |-> -103]

\* |p - x| <= x * 2^-51
Near(p, x) == ~FLess(FMul(x, TwoUlps), FAbs(FSub(p, x)))

(* C16, as claimed: the fill price handed to execute_copy_trade is
   usdc_amount / token_amount when token_amount > 0, the scale of 10^6
   cancelling, and 0 when token_amount = 0, in which case the trade is still
   handed over. *)
C16_FillPriceIsQuotient ==
    Mirrored =>
      Handed = {IF out.cls.token_amount > 0 THEN Quotient ELSE FZero}

(* C16, amended: the fill price handed over is the binary64 result of
   (usdc_amount / 1e6) / (token_amount / 1e6), three roundings, which is
   within two units in the last place of usdc_amount / token_amount; it is
   0 when token_amount = 0, and the trade is handed over then too. *)
C16_FillPriceNearQuotient ==
    Mirrored =>
      /\ Cardinality(Handed) = 1
      /\ \A p \in Handed :
           IF out.cls.token_amount > 0 THEN Near(p, Quotient) ELSE p = FZero

\* 52.34 for 100 tokens: the price handed over is not the nearest to 0.5234
C16_InexactFillPrice ==
    /\ Mirrored
    /\ out.cls.usdc_amount = 52340000
    /\ out.cls.token_amount = 100000000
    /\ Handed # {}
    /\ Handed # {Quotient}

----------------------------------------------------------------------------
(* Properties of execute_copy_trade                                        *)

\* the positions of the effects of one kind in an effect sequence
Ops(fx, op) == {i \in DOMAIN fx : fx[i].op = op}

\* the two sizing settings as the call read them
ReadCopyRatio == GetNumber(cfgFile.cfg.copy_ratio, DefaultCopyRatio)

ReadMaxCap == GetNumber(cfgFile.cfg.max_cap_usdc, DefaultMaxCap)

\* the call is over and its configuration loaded
Decided == pc = "done" /\ cfgFile.kind = "ok"

\* the terminal paths that lie behind the slippage guard
PastGuard ==
    {"sizing_error", "sizing_nonpositive", "order_args_failed", "submitted",
     "submission_failed"}

\* the price level the call read from the book
QuoteRead == IF call.side = "BUY" THEN out.book.asks[1] ELSE out.book.bids[1]

Abs(i) == IF i < 0 THEN -i ELSE i

\* |q - p| / p <= 0.05 on the decimals q and p, in exact arithmetic
WithinTolerance(q, p) ==
    20 * Abs(q.n * 10^p.k - p.n * 10^q.k) <= Abs(p.n) * 10^q.k

(* C2: with copy_ratio in (0,1] and max_cap_usdc > 0, every order handed to
   the exchange has size min(copy_ratio * max_cap_usdc, max_cap_usdc), that
   is copy_ratio * max_cap_usdc. *)
C2_SizeIsRatioOfCap ==
    (/\ Decided
     /\ ReadCopyRatio.t = "num" /\ ReadMaxCap.t = "num"
     /\ 0 < ReadCopyRatio.n /\ ReadCopyRatio.n <= 10^ReadCopyRatio.k
     /\ 0 < ReadMaxCap.n)
    => \A i \in Ops(out.fx, "post") :
         out.fx[i].size = PyMin(FMul(ParseFloat(ReadCopyRatio), ParseFloat(ReadMaxCap)),
                                ParseFloat(ReadMaxCap))

(* C3: with a target price p other than zero and a quote q read from the
   book, the call gets past the slippage guard exactly when
   |q - p| / p <= 0.05 (5% itself passes), and hands no order to the exchange
   when the deviation is above 5%. *)
C3_GuardIsInclusiveFivePercent ==
    (/\ Decided
     /\ out.path \in PastGuard \cup {"slippage_exceeded"}
     /\ call.target.t = "num" /\ call.target.n # 0)
    => /\ (out.path \in PastGuard) <=> WithinTolerance(QuoteRead, call.target)
       /\ ~WithinTolerance(QuoteRead, call.target) => Ops(out.fx, "post") = {}

(* C4: a call of execute_copy_trade whose configuration loads makes exactly
   one log_trade_to_db call, whichever terminal path it takes. *)
C4_OneLogPerCall == Decided => Cardinality(Ops(out.fx, "log")) = 1

\* a call that failed at submission, after every earlier step succeeded
C4_SubmissionFailedLogged ==
    /\ Decided
    /\ out.path = "submission_failed"
    /\ Cardinality(Ops(out.fx, "log")) = 1
    /\ Cardinality(Ops(out.fx, "post")) = 1

(* C5: with copy_ratio <= 0 or max_cap_usdc <= 0 in the configuration, no
   order is handed to the exchange and the call ends with one FAILED log
   record. *)
C5_NonPositiveNeverSubmits ==
    (/\ Decided
     /\ \/ ReadCopyRatio.t = "num" /\ ReadCopyRatio.n <= 0
        \/ ReadMaxCap.t = "num" /\ ReadMaxCap.n <= 0)
    => /\ Ops(out.fx, "post") = {}
       /\ Cardinality(Ops(out.fx, "log")) = 1
       /\ \A i \in Ops(out.fx, "log") : out.fx[i].status = "FAILED"

\* the side of the book the call needs, once the book is there
Levels == IF call.side = "BUY" THEN out.book.asks ELSE out.book.bids

\* the book was fetched and the best level of the needed side is a number
QuoteWasRead ==
    /\ Decided
    /\ out.book.kind = "ok"
    /\ Levels # <<>>
    /\ Levels[1].t = "num"

\* the one record the call wrote is FAILED with size 0 and the given price
OneFailedRecord(price) ==
    /\ Cardinality(Ops(out.fx, "log")) = 1
    /\ \A i \in Ops(out.fx, "log") :
         /\ out.fx[i].status = "FAILED"
         /\ out.fx[i].size = FZero
         /\ out.fx[i].price = price

(* C17: when the book was fetched and the side the trade needs is empty (no
   asks for a BUY, no bids for a SELL), no order is handed to the exchange
   and the call writes one record: FAILED, size 0, price 0. *)
C17_EmptyBookAborts ==
    (Decided /\ out.book.kind = "ok" /\ Levels = <<>>)
    => Ops(out.fx, "post") = {} /\ OneFailedRecord(FZero)

\* a purchase at a reference price of 0.5 that found no asks
C17_NoAsksForBuy ==
    /\ Decided
    /\ call.side = "BUY" /\ call.target = Num(5, 1)
    /\ out.book = Book(<<>>, <<Num(5, 1)>>)
    /\ Ops(out.fx, "post") = {}
    /\ OneFailedRecord(FZero)

(* C18: when the slippage guard rejects the trade, or the quote is more than
   5% off a reference price other than zero, no order is handed to the
   exchange and the one record written is FAILED with size 0 and the price
   read from the book, not the reference price. *)
C18_RejectionLogsQuote ==
    (/\ QuoteWasRead
     /\ \/ out.path = "slippage_exceeded"
        \/ /\ call.target.t = "num" /\ call.target.n # 0
           /\ ~WithinTolerance(QuoteRead, call.target))
    => Ops(out.fx, "post") = {} /\ OneFailedRecord(ParseFloat(QuoteRead))

\* a purchase at a reference price of 0.5 with the best ask at 0.60
C18_TwentyPercentOff ==
    /\ QuoteWasRead
    /\ call.side = "BUY" /\ call.target = Num(5, 1)
    /\ QuoteRead = Num(60, 2)
    /\ Ops(out.fx, "post") = {}
    /\ OneFailedRecord(ParseFloat(Num(60, 2)))

\* the sizing settings of the call give a positive size
SizingValid ==
    /\ ReadCopyRatio.t = "num" /\ ReadCopyRatio.n > 0
    /\ ReadMaxCap.t = "num" /\ ReadMaxCap.n > 0

(* C19: with a reference price of 0 or none, the slippage check does not
   fail the call: whatever the quote, the call goes on to sizing, and with
   valid sizing settings to an order at the quoted price. *)
C19_ZeroReferenceSkipsGuard ==
    (QuoteWasRead /\ call.target \in {NoneVal, Num(0, 0)})
    => /\ out.path \in PastGuard
       /\ SizingValid =>
            /\ out.path \in {"order_args_failed", "submitted", "submission_failed"}
            /\ \A i \in Ops(out.fx, "post") : out.fx[i].price = ParseFloat(QuoteRead)
            /\ \A i \in Ops(out.fx, "log") : out.fx[i].price = ParseFloat(QuoteRead)

\* an order placed at 0.60 on a reference price of 0
C19_ZeroReferenceSubmitted ==
    /\ QuoteWasRead
    /\ call.target = Num(0, 0)
    /\ QuoteRead = Num(60, 2)
    /\ out.path = "submitted"
    /\ \E i \in Ops(out.fx, "post") : out.fx[i].price = ParseFloat(Num(60, 2))

(* C20: every order handed to the exchange has the token and the side the
   call was made with, and as its price the first ask of the book for a BUY
   and the first bid for a SELL; the reference price is not its price
   unless the quote is the same number. *)
C20_OrderCarriesQuote ==
    Decided =>
      \A i \in Ops(out.fx, "post") :
        /\ QuoteWasRead
        /\ out.fx[i].token = call.token
        /\ out.fx[i].side = call.side
        /\ out.fx[i].price = ParseFloat(QuoteRead)

\* a sale placed at the first bid, which is neither the first ask nor the
\* reference price
C20_SellAtFirstBid ==
    /\ QuoteWasRead
    /\ call.side = "SELL"
    /\ call.target.t = "num" /\ call.target.n # 0
    /\ call.target # out.book.bids[1]
    /\ out.book.asks # <<>> /\ out.book.asks[1] # out.book.bids[1]
    /\ \E i \in Ops(out.fx, "post") :
         /\ out.fx[i].side = "SELL"
         /\ out.fx[i].price = ParseFloat(out.book.bids[1])

\* the one record of the call has the given status and the size and price of
\* the order fx[i]
OneRecordOfOrder(i, status) ==
    /\ Cardinality(Ops(out.fx, "log")) = 1
    /\ \A j \in Ops(out.fx, "log") :
         /\ i < j
         /\ out.fx[j].status = status
         /\ out.fx[j].size = out.fx[i].size
         /\ out.fx[j].price = out.fx[i].price

(* C21: a SUCCESS record is written exactly when create_and_post_order
   returned, and it has the size and price of the order; when
   create_and_post_order raises, the one record written is FAILED with the
   size of the order, which is not zero, and the price read from the book,
   and the call returns as a failed submission, not through the catch-all. *)
C21_RecordFollowsSubmission ==
    Decided =>
      /\ (\E j \in Ops(out.fx, "log") : out.fx[j].status = "SUCCESS")
           <=> (\E i \in Ops(out.fx, "post") : out.fx[i].status = "ok")
      /\ \A i \in Ops(out.fx, "post") :
           /\ QuoteWasRead
           /\ out.fx[i].price = ParseFloat(QuoteRead)
           /\ FIsNaN(out.fx[i].size) \/ ~FEq(out.fx[i].size, FZero)
           /\ IF out.fx[i].status = "ok"
              THEN out.path = "submitted" /\ OneRecordOfOrder(i, "SUCCESS")
              ELSE out.path = "submission_failed" /\ OneRecordOfOrder(i, "FAILED")

\* a purchase of 500 at 0.525 that the exchange refused
C21_RefusedOrderRecorded ==
    /\ Decided
    /\ call.side = "BUY"
    /\ out.path = "submission_failed"
    /\ \E i \in Ops(out.fx, "post") :
         /\ out.fx[i].status = "raise"
         /\ out.fx[i].size = FInt(500)
         /\ out.fx[i].price = FDec(525, 3)
         /\ OneRecordOfOrder(i, "FAILED")

(* C22: when config.json cannot be loaded (missing, not JSON, unreadable)
   the call ends before anything else: no label lookup (the cache is as it
   was, empty), no client, no order book request, no order and no record. *)
C22_NoConfigNoEffect ==
    (pc = "done" /\ cfgFile.kind # "ok")
    => /\ out.path = "config_unavailable"
       /\ out.fx = <<>>
       /\ out.book.kind = "unasked"
       /\ cache = <<>>
       /\ orders = <<>>
       /\ trades = <<>>

\* a call that found config.json with invalid JSON in it
C22_CorruptConfigAborted ==
    /\ pc = "done"
    /\ cfgFile = FileBad("corrupt")
    /\ out.path = "config_unavailable"
    /\ out.fx = <<>>
    /\ cache = <<>>

----------------------------------------------------------------------------
(* Properties of start_listener: the configuration of an iteration         *)

\* the party's address is the wallet's up to the case of its letters
Names(party, wallet) ==
    /\ Len(party) = Len(wallet)
    /\ \A i \in DOMAIN party : SameLetter(party[i], wallet[i])

\* process_event ending by path on the event e is what the target and the
\* switch of cfg make of e; a mirrored event ends as execute_copy_trade does
EndsUnder(cfg, e, path) ==
    IF GetStr(cfg.target_wallet).t # "str" THEN path = "event_error"
    ELSE IF ~\E party \in {e.maker.s, e.taker.s} :
               Names(party, GetStr(cfg.target_wallet).s)
    THEN path = "not_target"
    ELSE IF cfg.is_active # "true" THEN path = "inactive"
    ELSE path \notin {"event_error", "not_target", "inactive", "no_args"}

\* the events of the batch handled so far ended as the configuration of the
\* iteration has them end
EventsFollowConfig ==
    pc = "batch" =>
      \A j \in DOMAIN trace :
        (trace[j].op = "event" /\ events[trace[j].event].hasArgs)
        => EndsUnder(config, events[trace[j].event].args, trace[j].status)

\* an iteration that fetches events runs with what config.json holds at that
\* moment, switched off when the file is missing, and keeps it to the end of
\* the batch
ConfigFromStore ==
    /\ (pc = "polling" /\ pc' = "batch") =>
         IF cfgFile.kind = "ok" THEN config' = cfgFile.cfg
         ELSE config'.is_active = "false"
    /\ pc = "batch" => config' = config

(* C23: every polling iteration applies to the events it fetched the target
   and the is_active switch that config.json held when the iteration began,
   whatever an earlier iteration ran with and whatever is written to the
   file while the batch is handled: a change made between two iterations is
   applied by the next one. *)
C23_ConfigReadEachIteration == []EventsFollowConfig /\ [][ConfigFromStore]_vars

\* a second iteration that ran switched off after a first that placed an
\* order
C23_SwitchedOffBetweenIterations ==
    /\ pc = "batch"
    /\ Len(fetched) = 2
    /\ idx = Len(events)
    /\ orders # <<>>
    /\ cfgFile.kind = "ok"
    /\ config.is_active = "false"
    /\ \E j \in DOMAIN trace : trace[j].op = "event" /\ trace[j].status = "inactive"
    /\ \A j \in DOMAIN trace : trace[j].op # "post"

----------------------------------------------------------------------------
(* Properties of process_event: events with missing fields                 *)

\* the event of the call lacks one of the six fields process_event reads
MissingField ==
    \E v \in {call.event.maker, call.event.taker, call.event.makerAssetId,
               call.event.takerAssetId, call.event.makerAmountFilled,
               call.event.takerAmountFilled} : v.t = "absent"

(* C24: an event that lacks a field (maker, taker, an asset id or a filled
   amount) is skipped without a label lookup, a call of the executor or an
   order: it is not classified with a default in the field's place. *)
C24_MissingFieldSkipsEvent ==
    (pc = "done" /\ MissingField)
    => /\ out.cls.kind # "trade"
       /\ out.fx = <<>>
       /\ cache = <<>>
       /\ orders = <<>>

----------------------------------------------------------------------------
(* Properties of get_market_details                                        *)

\* the requests that the claimed placeholder rule calls failures of the lookup
LookupFailures ==
    HttpFailures
    \cup {"empty", "null_tokens", "no_question", "no_slug", "no_tokens",
          "no_outcome", "bare"}

\* the value the call trace[i] returned has the question, the outcome and the
\* slug given, "" standing for what the API holds for the id
Gave(i, question, outcome, slug) ==
    /\ trace[i].info.question =
         (IF question = "" THEN MarketOf(trace[i].id).question ELSE question)
    /\ trace[i].info.outcome =
         (IF outcome = "" THEN MarketOf(trace[i].id).outcome ELSE outcome)
    /\ trace[i].info.market_slug =
         (IF slug = "" THEN MarketOf(trace[i].id).market_slug ELSE slug)

(* C25 as claimed: no call raises, and after every failure of the lookup
   (timeout, HTTP error, connection error, empty response, invalid JSON,
   missing fields) the call returns the fixed placeholder. *)
C25_FailureGivesPlaceholder ==
    \A i \in DOMAIN trace :
      /\ ~trace[i].raised
      /\ trace[i].api \in LookupFailures => trace[i].info = DefaultResponse

(* C25: no call raises. After an exception of the request, an empty list or
   a market whose tokens are null the call returns the fixed placeholder.
   A market that lacks fields is not turned into the placeholder: each
   missing field gets its own default ("Unknown" for the question and the
   outcome, the empty slug) and the fields that are there are returned; the
   value is the placeholder only when all three are missing. *)
C25_FailureGivesDefaults ==
    \A i \in DOMAIN trace :
      /\ ~trace[i].raised
      /\ trace[i].api \in HttpFailures \cup {"empty", "null_tokens", "bare"}
           => trace[i].info = DefaultResponse
      /\ trace[i].api = "ok" => Gave(i, "", "", "")
      /\ trace[i].api = "no_question" => Gave(i, "Unknown", "", "")
      /\ trace[i].api = "no_slug" =>
           /\ trace[i].info.question = MarketOf(trace[i].id).question
           /\ trace[i].info.outcome = MarketOf(trace[i].id).outcome
           /\ trace[i].info.market_slug = ""
      /\ trace[i].api \in {"no_tokens", "other_tokens", "no_outcome",
                            "numeric_token_id"}
           => Gave(i, "", "Unknown", "")

\* a market without its tokens: the question and the slug are returned, the
\* outcome is unknown
C25_QuestionWithoutOutcome ==
    \E i \in DOMAIN trace :
      /\ trace[i].api = "no_tokens"
      /\ trace[i].id = 7
      /\ trace[i].info =
           [question |-> "Will it rain?", outcome |-> "Unknown", market_slug |-> "rain"]

\* the calls before the call trace[j] that had its id
Earlier(j) == {i \in 1..(j - 1) : trace[i].id = trace[j].id}

(* C26: while an id is in the cache, a call for it asks the API nothing and
   returns what the first call for it returned; the first call for an id
   asks the API once, whatever was asked for other ids in between, and the
   cache holds one entry for each id with the value of its first call. *)
C26_OneRequestPerId ==
    /\ \A j \in DOMAIN trace :
         /\ trace[j].asked <=> Earlier(j) = {}
         /\ \A i \in Earlier(j) : trace[j].info = trace[i].info
         /\ \E k \in DOMAIN cache :
              /\ cache[k][1] = trace[j].id
              /\ cache[k][2] = trace[j].info
    /\ Len(cache) = Cardinality({trace[j].id : j \in DOMAIN trace})

\* token 7, then token 8, then token 7 again from the cache, the two
\* requests having come out differently
C26_SecondIdInBetween ==
    /\ Len(trace) = 3
    /\ trace[1].id = 7 /\ trace[2].id = 8 /\ trace[3].id = 7
    /\ trace[1].asked /\ trace[2].asked /\ ~trace[3].asked
    /\ trace[1].api = "ok" /\ trace[2].api = "timeout"
    /\ trace[3].info = MarketOf(7)
    /\ Len(cache) = 2

----------------------------------------------------------------------------
(* Properties of log_trade_to_db                                           *)

(* C27: no log_trade_to_db call raises; when connecting or inserting fails
   no row is added, and the connection is closed unless connecting itself
   failed; the call of execute_copy_trade ends as it would have: an order
   that was placed has its one SUCCESS record attempted and no FAILED one. *)
C27_LogFailureSwallowed ==
    Decided =>
      /\ \A l \in out.logged :
           /\ ~l.raised
           /\ l.conn = (IF out.db = "connect_error" THEN "none" ELSE "closed")
           /\ out.db # "ok" => l.rows = <<>>
      /\ out.db # "ok" => trades = <<>>
      /\ out.db = "ok" =>
           Len(trades)
           = Cardinality({j \in Ops(out.fx, "log") : ~FIsNaN(out.fx[j].size)})
      /\ out.path = "submitted" =>
           /\ Cardinality(Ops(out.fx, "log")) = 1
           /\ \A j \in Ops(out.fx, "log") : out.fx[j].status = "SUCCESS"

\* an order placed while the database was locked: nothing stored, and no
\* second record attempted
C27_PlacedButNotStored ==
    /\ Decided
    /\ out.path = "submitted"
    /\ out.db = "locked"
    /\ trades = <<>>
    /\ Cardinality(Ops(out.fx, "log")) = 1
    /\ \A l \in out.logged : l.conn = "closed" /\ ~l.raised

\* the rows carry the ids 1, 2, ... in the order they were written
IdsInOrder == \A i \in DOMAIN trades : trades[i].id = i

\* a step leaves the table as it is, or adds one row behind the rows that
\* were there, and then it is the handling of an event that called
\* execute_copy_trade
AppendOnly ==
    \/ trades' = trades
    \/ /\ Len(trades') = Len(trades) + 1
       /\ SubSeq(trades', 1, Len(trades)) = trades
       /\ pc = "batch" /\ idx' = idx + 1
       /\ \E j \in DOMAIN trace' : trace'[j].event = idx' /\ trace'[j].op = "exec"

(* C28: the listener and the executor only append to the trade log: every
   row once written stays, with its values, at its place, and a step adds at
   most one row, for the mirror attempt it made. *)
C28_LogAppendOnly == []IdsInOrder /\ [][AppendOnly]_vars

\* two rows, the purchase of the first batch and the sale of a later one
C28_TwoRowsKept ==
    /\ Len(trades) = 2
    /\ trades[1].side = "BUY" /\ trades[1].id = 1
    /\ trades[2].side = "SELL" /\ trades[2].id = 2

----------------------------------------------------------------------------
(* Properties of init_db, init_config and get_trades                       *)

\* the step is a call of op
Calls(op) == trace' = Append(trace, op)

\* init_db leaves every row and adds the table when there is none;
\* init_config leaves a file that exists, whatever it holds, and writes the
\* defaults, switched off, when there is none
InitStep ==
    /\ Calls("init_db") =>
         /\ trades' = trades /\ cfgFile' = cfgFile
         /\ tables \subseteq tables'
         /\ "trades" \in tables => tables' = tables
         /\ ~out'.raised => "trades" \in tables'
    /\ Calls("init_config") =>
         /\ trades' = trades /\ tables' = tables
         /\ cfgFile.kind # "missing" => cfgFile' = cfgFile /\ ~out'.raised
         /\ (cfgFile.kind = "missing" /\ ~out'.raised) =>
              /\ cfgFile' = FileOk(DefaultConfig)
              /\ cfgFile'.cfg.is_active = "false"

\* after a run that went through, a second run of either changes nothing,
\* however it comes out
RunTwiceIsRunOnce ==
    /\ \A io \in {"ok", "open_error", "write_error"} :
         InitConfig(InitConfig(cfgFile, "ok").file, io).file
         = InitConfig(cfgFile, "ok").file
    /\ \A db \in {"ok", "error"} :
         InitDb(InitDb(tables, "ok").tables, db).tables = InitDb(tables, "ok").tables

(* C29: init_config writes the default settings, with is_active false, only
   when config.json does not exist, and leaves an existing file as it is;
   init_db creates the trades table only when it is absent and leaves the
   rows; a second run of either gives the state the first run gave. *)
C29_InitIdempotent == []RunTwiceIsRunOnce /\ [][InitStep]_vars

\* both were run on a log of 49 rows and on settings an operator had
\* written: rows and settings are as before
C29_ExistingStateKept ==
    /\ Len(trace) = 3
    /\ trace[1] = "init_db" /\ trace[2] = "init_config" /\ trace[3] = "init_db"
    /\ ~out.raised
    /\ trades = Prefilled(TradesLimit - 1)
    /\ cfgFile = FileOk(Cfg("true", Str(<<"A", "b">>), Num(3, 1), Num(100, 0)))

\* the last call made was a call of op
LastCall(op) == trace # <<>> /\ trace[Len(trace)] = op

\* the ids of the rows of a sequence
Ids(rows) == {rows[i].id : i \in DOMAIN rows}

(* C30: get_trades returns at most 50 rows of the log, those with the
   highest ids, highest first, all of the rows when there are no more than
   50; on an empty log, and when sqlite3 raises, it returns the empty list
   and raises nothing. *)
C30_FiftyMostRecent ==
    LastCall("get_trades") =>
      /\ ~out.raised
      /\ Len(out.rows) <= 50
      /\ \A k \in DOMAIN out.rows : \E i \in DOMAIN trades : trades[i] = out.rows[k]
      /\ \A k \in DOMAIN out.rows : \A l \in DOMAIN out.rows :
           k < l => out.rows[k].id > out.rows[l].id
      /\ \A i \in DOMAIN trades : \A k \in DOMAIN out.rows :
           trades[i].id \notin Ids(out.rows) => trades[i].id < out.rows[k].id
      /\ (out.db = "ok" /\ "trades" \in tables) =>
           Len(out.rows) = (IF Len(trades) < 50 THEN Len(trades) ELSE 50)
      /\ (out.db # "ok" \/ trades = <<>>) => out.rows = <<>>

\* a log of 51 rows: the rows 51 down to 2 are returned
C30_OldestRowLeftOut ==
    /\ LastCall("get_trades")
    /\ Len(trades) = 51
    /\ Len(out.rows) = 50
    /\ out.rows[1].id = 51
    /\ out.rows[50].id = 2

----------------------------------------------------------------------------
(* Properties of calculate_metrics                                         *)

\* the sizes of the first k records of the list, added one after the other
VolumeOfFirst(k) ==
    LET v[i \in 0..k] == IF i = 0 THEN FZero ELSE FAdd(v[i - 1], call.trades[i][6])
    IN  v[k]

(* C31: for every list of records calculate_metrics returns the number of
   records, the sum of their size_usdc, FAILED records included, and the
   timestamp of the first record of the list; for the empty list it returns
   (0, 0.0, None). *)
C31_MetricsOfList ==
    pc = "done" =>
      /\ out.total_trades = Len(call.trades)
      /\ out.total_volume = VolumeOfFirst(Len(call.trades))
      /\ call.trades = <<>> => out.total_volume = FZero /\ out.last_trade_time = NoTime
      /\ call.trades # <<>> => out.last_trade_time = SomeTime(call.trades[1][2])

\* a FAILED record of 0.2 first, then 0.1 and 500: the volume is 500.3 and
\* the time that of the FAILED record
C31_FailedRecordCounted ==
    /\ pc = "done"
    /\ Len(call.trades) = 3
    /\ call.trades[1][8] = "FAILED" /\ call.trades[1][2] = 300
    /\ call.trades[2][1] = 4 /\ call.trades[3][1] = 2
    /\ out.total_trades = 3
    /\ out.total_volume = FDec(5003, 1)
    /\ out.last_trade_time = SomeTime(300)

----------------------------------------------------------------------------
(* Properties of start_listener: no event is mirrored twice                *)

\* how many orders with this side have been posted: the ledger holds one
\* trade of the target per side
OrdersOf(side) == Cardinality({i \in DOMAIN orders : orders[i].side = side})

\* how many orders the batch under way has posted for its event number e
PostsFor(e) ==
    Cardinality({i \in DOMAIN trace : trace[i].op = "post" /\ trace[i].event = e})

\* the ranges fetched on this connection share no block and lie at or below
\* the cursor, or the height of the batch under way; no trade of the target
\* has led to two orders
FetchedOnce ==
    /\ \A i \in DOMAIN fetched : \A j \in DOMAIN fetched :
         i < j => fetched[i][2] < fetched[j][1]
    /\ \A i \in DOMAIN fetched :
         fetched[i][2] <= (IF pc = "batch" THEN current_block ELSE last_block)
    /\ \A e \in 1..Len(events) : PostsFor(e) <= 1
    /\ OrdersOf("BUY") <= 1 /\ OrdersOf("SELL") <= 1

\* the cursor never goes back, and a range that is fetched starts above it,
\* so above every block fetched before, on this connection or an earlier one
CursorOnlyForward ==
    /\ last_block' >= last_block
    /\ (pc = "batch" /\ pc' = "polling") => last_block' = fetched[Len(fetched)][2]
    /\ (fetched' # fetched /\ fetched' # <<>>) =>
         /\ pc = "polling" /\ pc' = "batch"
         /\ Len(fetched') = Len(fetched) + 1
         /\ fetched'[Len(fetched')][1] > last_block
         /\ fetched'[Len(fetched')][2] = height

(* C32: with a ledger whose height never decreases, over every sequence of
   polling iterations, faults and reconnects, each block is in at most one
   fetched range and each fetched event leads to at most one call of
   create_and_post_order: no trade of the target is mirrored twice. *)
C32_NoEventMirroredTwice == []FetchedOnce /\ [][CursorOnlyForward]_vars

\* block 1 was fetched and mirrored, the connection was set up again, block
\* 2 was fetched and mirrored: two orders, one for each trade
C32_OneOrderPerTrade ==
    /\ pc = "polling"
    /\ fetched = <<(<<2, 2>>)>>
    /\ skipped = {}
    /\ Len(orders) = 2
    /\ orders[1].side = "BUY" /\ orders[2].side = "SELL"

----------------------------------------------------------------------------
(* Properties of execute_copy_trade: the size of an order                  *)

\* x > 0 and x <= cap as Python evaluates them
WithinCap(x, cap) == ~FIsNaN(x) /\ FLess(FZero, x) /\ ~FLess(cap, x)

(* C33: every order handed to create_and_post_order has a size above zero
   and not above the max_cap_usdc the call read from config.json, whatever
   copy_ratio is. *)
C33_SizeWithinCap ==
    Decided =>
      \A i \in Ops(out.fx, "post") : WithinCap(out.fx[i].size, ParseFloat(ReadMaxCap))

----------------------------------------------------------------------------
(* Properties of start_listener: the is_active switch of an iteration      *)

\* the step adds an effect op to the effects of the batch
Adds(op) ==
    \E i \in (Len(trace) + 1)..Len(trace') : trace'[i].op = op

\* the orders of the batch under way were placed by an iteration that read
\* is_active true
OrdersUnderSwitch ==
    pc = "batch" =>
      ((\E i \in DOMAIN trace : trace[i].op = "post") => config.is_active = "true")

\* the switch is read once per iteration; an order is placed only in a batch
\* whose iteration read it true; and execute_copy_trade, once called, goes
\* on to get_client whatever is_active config.json holds by then
SwitchSampledOnce ==
    /\ pc = "batch" => config' = config
    /\ orders' # orders => pc = "batch" /\ config.is_active = "true"
    /\ (pc = "batch" /\ Adds("exec") /\ cfgFile.kind = "ok") => Adds("client")

(* C34: an order is submitted for an event only if is_active was true in the
   configuration read at the start of the iteration that fetched the event;
   the switch is read once per iteration and applied to every event of the
   batch, and execute_copy_trade, which reads config.json again, does not
   look at is_active. *)
C34_SwitchReadOncePerIteration == []OrdersUnderSwitch /\ [][SwitchSampledOnce]_vars

\* an order of 100: its size was read from a config.json that was switched
\* off and capped at 100 after the iteration had read is_active true
C34_OrderAfterSwitchOff ==
    /\ pc = "batch"
    /\ config.is_active = "true"
    /\ cfgFile.kind = "ok" /\ cfgFile.cfg.is_active = "false"
    /\ \E i \in DOMAIN orders : orders[i].size = FInt(100)
    /\ \E i \in DOMAIN trace : trace[i].op = "post"

----------------------------------------------------------------------------
(* Properties of the dashboard: STOP and Update Settings                   *)

(* C35: once a session has saved STOP, is_active is not true in config.json
   until some session presses START: an Update Settings save, of the same or
   of another session, from a configuration loaded earlier, does not switch
   the bot on again. *)
C35_StopHoldsUntilStart == out.stopped => ~StoredActive(cfgFile)

----------------------------------------------------------------------------
(* Properties of a polling iteration that fails on a healthy connection    *)

\* the ranges fetched on this connection follow one another without a gap,
\* and the cursor stands at the end of the last one, or in front of it while
\* its batch is handled
NoBlockLeftOut ==
    /\ \A i \in 1..(Len(fetched) - 1) : fetched[i + 1][1] = fetched[i][2] + 1
    /\ fetched # <<>> =>
         last_block = IF pc = "batch" THEN fetched[Len(fetched)][1] - 1
                      ELSE fetched[Len(fetched)][2]
    /\ \A b \in skipped : b <= last_block
    /\ current_block <= height

\* the failing iteration handles no event and moves nothing; its handler,
\* with is_connected() true, leaves the cursor; the fetch that follows
\* starts at cursor + 1 and reaches the height, which is not below the
\* height the failed iteration read
FailedRangeKept ==
    /\ (pc = "polling" /\ pc' = "poll_fault") =>
         /\ last_block' = last_block /\ fetched' = fetched /\ skipped' = skipped
         /\ trades' = trades /\ orders' = orders /\ cache' = cache /\ trace' = trace
    /\ (pc = "poll_fault" /\ netUp /\ pc' = "polling") =>
         /\ last_block' = last_block /\ fetched' = fetched /\ skipped' = skipped
         /\ trades' = trades /\ orders' = orders
    /\ (pc = "polling" /\ pc' = "batch") =>
         /\ fetched' = Append(fetched, <<last_block + 1, height>>)
         /\ events' = GetLogs(last_block + 1, height)
         /\ height >= current_block

(* C36: when the height query or the log fetch of a polling iteration fails
   and the connection still answers is_connected() in the handler, the
   cursor stays where it was and no event of the range is handled; the next
   iteration that fetches does so from the same cursor + 1, so the ranges
   fetched on the connection leave out no block of the failed range. *)
C36_FailedRangeFetchedAgain == []NoBlockLeftOut /\ [][FailedRangeKept]_vars

\* the fetch of block 1 failed after the height was read, the handler found
\* the connection healthy, and the supervisor polls again with the cursor
\* still at 0 and the target's BUY of block 1 not handled
C36_FailedFetchRetried ==
    /\ pc = "polling" /\ netUp
    /\ last_block = 0 /\ current_block >= 1
    /\ fetched = <<>> /\ skipped = {} /\ orders = <<>> /\ trades = <<>>

----------------------------------------------------------------------------
(* Properties of an iteration that cannot load config.json                 *)

\* lines 265 and 268: the configuration of an iteration whose open or
\* json.load raised FileNotFoundError or JSONDecodeError
Fallback == Cfg("false", TARGET_WALLET, Absent, Absent)

\* the batch of an iteration running with the fallback: every event handled
\* so far ended as not the target's, as inactive or without args, and nothing
\* was asked of the executor
FallbackMirrorsNothing ==
    (pc = "batch" /\ config = Fallback) =>
      /\ events = GetLogs(last_block + 1, current_block)
      /\ \A j \in DOMAIN trace :
           /\ trace[j].op \in {"event", "label"}
           /\ trace[j].op = "event" =>
                trace[j].status \in {"inactive", "not_target", "no_args"}

\* the iteration that finds config.json missing or not JSON still fetches,
\* with the fallback; its batch adds no order and no record; it ends with
\* the cursor at the height it read, and a later fetch starts above it
FallbackIteration ==
    /\ (pc = "polling" /\ pc' = "batch" /\ cfgFile.kind \in {"missing", "corrupt"}) =>
         /\ config' = Fallback
         /\ events' = GetLogs(last_block + 1, height)
    /\ (pc = "batch" /\ config = Fallback) =>
         /\ orders' = orders /\ trades' = trades
         /\ pc' = "polling" => last_block' = current_block
    /\ (pc = "polling" /\ pc' = "batch") => fetched'[Len(fetched')][1] > last_block
    /\ last_block' >= last_block

(* C37: a polling iteration that finds config.json missing or not valid
   JSON runs with is_active false and the target read at startup: the logs
   are fetched and every event classified, the cursor moves to the fetched
   height, no order is placed and no record written for these events, and no
   later iteration fetches them again. *)
C37_UnloadableConfigDropsBatch == []FallbackMirrorsNothing /\ [][FallbackIteration]_vars

\* the target's BUY of block 1 was fetched with config.json missing or
\* corrupt, classified and left as inactive, and the cursor has moved on
C37_TargetTradeDropped ==
    /\ pc = "polling" /\ config = Fallback
    /\ last_block = current_block /\ last_block >= 1
    /\ \E j \in DOMAIN trace :
         /\ trace[j].op = "event" /\ trace[j].status = "inactive"
         /\ trace[j].side = "BUY" /\ trace[j].token = 7
    /\ orders = <<>> /\ trades = <<>>

----------------------------------------------------------------------------
(* Properties of a supervisor without MY_PRIVATE_KEY                       *)

\* the effects the step adds to the trace of the batch
Added == (Len(trace) + 1)..Len(trace')

\* the event handled by the step got as far as get_client, which raised:
\* the order book was not asked for
ClientRaised == pc = "batch" /\ Adds("client") /\ ~Adds("book")

\* startup, connect and setup make no get_client call; a decision whose
\* get_client raised makes one log_trade_to_db call and no order, the
\* record it may store is FAILED with size 0 and price 0, and the batch
\* goes on with the next event
MissingKeyStep ==
    /\ pc \in {"start", "connecting", "setup"} => trace' = trace /\ trades' = trades
    /\ ClientRaised =>
         /\ Cardinality({i \in Added : trace'[i].op = "client"}) = 1
         /\ Cardinality({i \in Added : trace'[i].op = "log"}) = 1
         /\ ~Adds("post") /\ orders' = orders
         /\ \A i \in Added : trace'[i].op = "event" =>
              trace'[i].status = "client_init_failed"
         /\ Len(trades') \in {Len(trades), Len(trades) + 1}
         /\ SubSeq(trades', 1, Len(trades)) = trades
         /\ Len(trades') = Len(trades) + 1 =>
              /\ trades'[Len(trades')].status = "FAILED"
              /\ trades'[Len(trades')].size_usdc = FZero
              /\ trades'[Len(trades')].price = FZero
         /\ pc' = "batch" /\ idx' = idx + 1 /\ last_block' = last_block
    /\ pc = "batch" => pc' \in {"batch", "polling"}

(* C38: nothing at startup calls get_client, so a missing MY_PRIVATE_KEY is
   not noticed there; each mirror decision whose get_client raises ends
   without the order book being asked for and without an order, with
   exactly one FAILED record of size 0 and price 0, and the supervisor goes
   on with the next event and the next polling iteration. *)
C38_MissingKeyFailsEachDecision == [][MissingKeyStep]_vars

\* both trades of the target, fetched in one batch, ended at get_client:
\* two FAILED records of size 0, no order, and the supervisor polls again
C38_TwoDecisionsFailed ==
    /\ pc = "polling" /\ last_block = 2
    /\ Cardinality({j \in DOMAIN trace : /\ trace[j].op = "event"
                                          /\ trace[j].status = "client_init_failed"}) = 2
    /\ Len(trades) = 2 /\ orders = <<>>
    /\ \A i \in DOMAIN trades :
         trades[i].status = "FAILED" /\ trades[i].size_usdc = FZero

----------------------------------------------------------------------------
(* Properties of a failed lookup in the cache                              *)

\* the calls before call j for the id of call j whose request failed
FailedBefore(j) ==
    {i \in 1..(j - 1) : /\ trace[i].id = trace[j].id
                        /\ trace[i].asked
                        /\ trace[i].api \in HttpFailures}

(* C39: after a call for an id whose request failed, every later call for
   the id returns the placeholder and sends no request, also when the API
   would answer with the market by then, as long as the id is in the cache. *)
C39_PlaceholderCached ==
    \A j \in DOMAIN trace :
      FailedBefore(j) # {} =>
        /\ ~trace[j].asked
        /\ trace[j].info = DefaultResponse
        /\ \E k \in DOMAIN cache :
             cache[k][1] = trace[j].id /\ cache[k][2] = DefaultResponse

\* the request for token 7 timed out; the API answers again, a call for
\* token 8 gets its market, and the call for token 7 still gets the
\* placeholder from the cache
C39_PlaceholderAfterRecovery ==
    /\ Len(trace) = 3
    /\ trace[1].id = 7 /\ trace[1].api = "timeout"
    /\ trace[2].id = 8 /\ trace[2].api = "ok" /\ trace[2].info = MarketOf(8)
    /\ trace[3].id = 7 /\ trace[3].answering /\ ~trace[3].asked
    /\ trace[3].info = DefaultResponse

====
